---- MODULE Spec2Model ----
(***************************************************************************)
(* Privileged-service lifecycle and IPC health monitor of nyanpasu:        *)
(*   core/service/ipc.rs      the monitor thread and the IPC state         *)
(*   core/service/control.rs  install/uninstall/start/stop/restart/status  *)
(*   core/service/mod.rs      init_service                                 *)
(* The three statics of ipc.rs are the shared state.  Every await point    *)
(* and every thread start is a place where other callers and the monitor   *)
(* threads interleave.                                                     *)
(***************************************************************************)
EXTENDS Integers, Sequences, FiniteSets, TLC

\* --------------------------------------------------------------- constants
PollAttempts == 30    \* control.rs:198, for attempt in 0..30
TIMEOUT_SECS == 30    \* error.rs:215, Duration::from_secs(30)

\* ------------------------------------------------------------------ bounds
MaxMonitors == 2      \* monitor threads that can exist at the same time
MaxChecks == 4        \* health checks of the monitor loop run alone
MaxRaceChecks == 1    \* health checks of each loop among concurrent callers
MaxFiles == 2         \* candidate files that exist when the path is resolved
MaxLate == 2          \* seconds past the timeout that operations and polls go

Monitors == 1..MaxMonitors
Callers == {1, 2}     \* the callers of the control operations

\* ------------------------------------------------------------------ types
ServiceStatus == {"NotInstalled", "Stopped", "Running"}
IpcState == {"Connected", "Disconnected"}
Ops == {"init", "install", "update", "uninstall", "start", "stop", "restart"}
\* The builds: cfg(all(unix, not(target_os = "macos"))), macos, windows.
Platforms == {"linux", "macos", "windows"}

VARIABLES
    IPC_STATE,             \* ipc.rs:26
    KILL_FLAG,             \* ipc.rs:27
    HEALTH_CHECK_RUNNING,  \* ipc.rs:28
    svc,                   \* what the helper's service really is (the OS)
    enable_service_mode,   \* Config::verge().latest().enable_service_mode
    mon,                   \* the monitor threads
    call,                  \* the callers of the control operations
    inited,                \* application start is over: init_service has been
                           \* called, or a control operation came first
    lastNote,              \* argument of the latest on_ipc_state_changed
    noteSeq,               \* flips at every on_ipc_state_changed
    run,                   \* the scenario: callers, thread slots, checks, log
    obs,                   \* statuses the health checks observed, in order
    notes,                 \* arguments of on_ipc_state_changed, in order
    enable_tun_mode,       \* Config::verge().latest().enable_tun_mode
    priv,                  \* the caller of PrivilegeManager::execute_operation
    query,                 \* a status() query: what the helper did, the result
    resolved,              \* a path resolution: the files there, the result
    core,                  \* the task the latest on_ipc_state_changed spawned
    safe                   \* a call of safe_async_op

vars == <<IPC_STATE, KILL_FLAG, HEALTH_CHECK_RUNNING, svc, enable_service_mode,
          mon, call, inited, lastNote, noteSeq, run, obs, notes,
          enable_tun_mode, priv, query, resolved, core, safe>>

shared == <<IPC_STATE, KILL_FLAG, HEALTH_CHECK_RUNNING>>
notif == <<lastNote, noteSeq, notes, core>>
\* What the service lifecycle (control.rs, ipc.rs) leaves alone.
outside == <<run, enable_tun_mode, priv, query, resolved, safe>>

NoMonitor == [pc |-> "none", check_count |-> 0, interval |-> 0, kill_pending |-> FALSE]
\* A caller: the operation it is in, where it is, and what the call has seen
\* and done so far (st0: its first status query, st1: the one after the
\* command, en: the service-mode flag it read, hcr: HEALTH_CHECK_RUNNING as
\* it read it, exit: how the helper command exited, polls: status queries of
\* the wait after a Windows install).  A call that returns stays "returned"
\* for one step.
Idle == [op |-> "none", pc |-> "idle", st0 |-> "none", res |-> "none",
         elevated |-> FALSE, en |-> FALSE, st1 |-> "none", hcr |-> FALSE,
         spawned |-> FALSE, kill_set |-> FALSE, exit |-> "none", polls |-> 0,
         polled |-> "none"]

NoQuery == [result |-> "none"]
\* The spawned task of a notification: the state notified, the service-mode
\* flag as the callback read it, the run type the core manager reported and
\* whether run_core was called.
NoTask == [pc |-> "none", state |-> "none", enabled |-> FALSE,
           run_type |-> "none", run_core |-> FALSE]
NoSafe == [pc |-> "idle"]
NoPath == [pc |-> "idle"]

Alive(m) == mon[m].pc # "none"
AliveMonitors == {m \in Monitors : Alive(m)}

\* ---------------------------------------------------------------- status()
\* control::status(): Ok(what the helper reports) or Err (permission denied,
\* other non-zero exits).  Its synthetic Ok(NotInstalled) reads to the caller
\* like a service that is not installed at that moment (EnvService).
status == {svc, "Err"}

\* ------------------------------------------------------------ atomics
\* compare_exchange: succeeds exactly when the current value is the expected.
compare_exchange(cur, expected) == {cur = expected}

\* compare_exchange_weak: may fail although the current value is the expected.
compare_exchange_weak(cur, expected) ==
    IF cur = expected THEN {TRUE, FALSE} ELSE {FALSE}

\* ------------------------------------------------------ IPC notifications
\* on_ipc_state_changed awaiting the task instead of spawning it.
on_ipc_state_changed_inline(state) ==
    /\ lastNote' = state
    /\ noteSeq' = 1 - noteSeq
    /\ notes' = IF run.trace THEN Append(notes, state) ELSE notes
    /\ core' = [NoTask EXCEPT !.pc = IF enable_service_mode THEN "status" ELSE "done",
                              !.state = state, !.enabled = enable_service_mode]

\* on_ipc_state_changed: read the service-mode flag, spawn the task, return.
on_ipc_state_changed(state) ==
    /\ lastNote' = state
    /\ noteSeq' = 1 - noteSeq
    /\ notes' = IF run.trace THEN Append(notes, state) ELSE notes
    /\ core' = [NoTask EXCEPT !.pc = "spawned", !.state = state,
                              !.enabled = enable_service_mode]

set_ipc_state(state) ==
    /\ IPC_STATE' = state
    /\ on_ipc_state_changed(state)

dispatch_disconnected ==
    \E ok \in compare_exchange_weak(IPC_STATE, "Connected") :
        IF ok
        THEN IPC_STATE' = "Disconnected" /\ on_ipc_state_changed("Disconnected")
        ELSE UNCHANGED <<IPC_STATE, notif>>

\* dispatch_connected notifying without looking at the outcome of the CAS.
dispatch_connected_unchecked ==
    IPC_STATE' = "Connected" /\ on_ipc_state_changed("Connected")

dispatch_connected ==
    \E ok \in compare_exchange_weak(IPC_STATE, "Disconnected") :
        IF ok
        THEN IPC_STATE' = "Connected" /\ on_ipc_state_changed("Connected")
        ELSE UNCHANGED <<IPC_STATE, notif>>

\* health_check(): Running connects, everything else disconnects.
health_check(st) ==
    IF st = "Running" THEN dispatch_connected ELSE dispatch_disconnected

\* interval_for with the comparison off by one (<= 3).
interval_for_le(check_count) == IF check_count <= 3 THEN 5 ELSE 30

\* The sleep that follows the check_count-th health check, in seconds.
interval_for(check_count) == IF check_count < 3 THEN 5 ELSE 30

\* ------------------------------------------------------ the monitor thread
FreeSlots == {m \in 1..run.slots : ~Alive(m)}

\* spawn_health_check(): clear the kill flag, start the thread.  The thread
\* publishes HEALTH_CHECK_RUNNING itself, once it runs (MonStart).
spawn_health_check ==
    /\ KILL_FLAG' = FALSE
    /\ \E m \in FreeSlots :
         /\ \A k \in FreeSlots : m <= k
         /\ mon' = [mon EXCEPT ![m] = [NoMonitor EXCEPT !.pc = "spawned"]]

MonStart(m) ==
    /\ mon[m].pc = "spawned"
    /\ HEALTH_CHECK_RUNNING' = TRUE
    /\ mon' = [mon EXCEPT ![m].pc = "top"]
    /\ UNCHANGED <<IPC_STATE, KILL_FLAG, svc, enable_service_mode, call, inited,
                   notif, outside, obs>>

\* Top of the loop (first iteration, or after the sleep): the kill-flag check.
MonKillCheck(m) ==
    /\ mon[m].pc = "top"
    /\ IF KILL_FLAG
       THEN /\ set_ipc_state("Disconnected")
            /\ mon' = [mon EXCEPT ![m].pc = "exiting", ![m].kill_pending = FALSE]
       ELSE /\ mon[m].check_count < run.checks
            /\ mon' = [mon EXCEPT ![m].pc = "check"]
            /\ UNCHANGED <<IPC_STATE, notif>>
    /\ UNCHANGED <<KILL_FLAG, HEALTH_CHECK_RUNNING, svc, enable_service_mode,
                   call, inited, outside, obs>>

MonExit(m) ==
    /\ mon[m].pc = "exiting"
    /\ HEALTH_CHECK_RUNNING' = FALSE
    /\ mon' = [mon EXCEPT ![m] = NoMonitor]
    /\ UNCHANGED <<IPC_STATE, KILL_FLAG, svc, enable_service_mode, call, inited,
                   notif, outside, obs>>

\* The loop body leaving the loop when the status query fails.
MonHealthCheckBreaks(m) ==
    /\ mon[m].pc = "check"
    /\ \E st \in status :
         /\ health_check(st)
         /\ obs' = IF run.trace THEN Append(obs, st) ELSE obs
         /\ mon' = [mon EXCEPT ![m].pc = IF st = "Err" THEN "exiting" ELSE "top",
                               ![m].check_count = @ + 1,
                               ![m].interval = interval_for(mon[m].check_count + 1)]
    /\ UNCHANGED <<KILL_FLAG, HEALTH_CHECK_RUNNING, svc, enable_service_mode,
                   call, inited, outside>>

MonHealthCheck(m) ==
    /\ mon[m].pc = "check"
    /\ \E st \in status :
         /\ health_check(st)
         /\ obs' = IF run.trace THEN Append(obs, st) ELSE obs
    /\ mon' = [mon EXCEPT ![m].pc = "top",
                          ![m].check_count = @ + 1,
                          ![m].interval = interval_for(mon[m].check_count + 1)]
    /\ UNCHANGED <<KILL_FLAG, HEALTH_CHECK_RUNNING, svc, enable_service_mode,
                   call, inited, outside>>

Monitor == \E m \in Monitors :
    MonStart(m) \/ MonKillCheck(m) \/ MonExit(m) \/ MonHealthCheck(m)

\* The helper's `status --json` run as status() sees it.  stderr is the set
\* of the marker substrings it contains; stdout is not UTF-8, not the JSON
\* of a StatusInfo, or the JSON of one with the given status.
PermissionMarkers == {"Permission denied", "os error 13"}
\* The last two stand for the two Chinese messages (zhao bu dao, bu cun zai).
NotInstalledMarkers == {"not installed", "not found", "does not exist",
                        "zh: cannot find", "zh: does not exist"}
Markers == PermissionMarkers \cup NotInstalledMarkers
Stdouts == {"not utf8", "not json"} \cup ServiceStatus

\* No executable: nothing is spawned.  Spawn failure: there is no output.
HelperRuns ==
    {[exe_exists |-> FALSE, spawn_ok |-> FALSE, stderr |-> {}, exit_ok |-> FALSE,
      stdout |-> "not utf8"],
     [exe_exists |-> TRUE, spawn_ok |-> FALSE, stderr |-> {}, exit_ok |-> FALSE,
      stdout |-> "not utf8"]}
    \cup [exe_exists : {TRUE}, spawn_ok : {TRUE}, stderr : SUBSET Markers,
          exit_ok : BOOLEAN, stdout : Stdouts]

contains(stderr, marker) == marker \in stderr

\* status() that looks for the not-installed markers before the
\* permission-denied ones.
status_query_markers_first(h) ==
    IF ~h.exe_exists THEN "NotInstalled"
    ELSE IF ~h.spawn_ok THEN "NotInstalled"
    ELSE IF ~h.exit_ok /\ \E m \in NotInstalledMarkers : contains(h.stderr, m)
    THEN "NotInstalled"
    ELSE IF \E m \in PermissionMarkers : contains(h.stderr, m) THEN "Err"
    ELSE IF ~h.exit_ok THEN "Err"
    ELSE IF h.stdout \in {"not utf8", "not json"} THEN "NotInstalled"
    ELSE h.stdout

\* status() that reports a JSON parse failure as an error.
status_query_json_err(h) ==
    IF ~h.exe_exists THEN "NotInstalled"
    ELSE IF ~h.spawn_ok THEN "NotInstalled"
    ELSE IF \E m \in PermissionMarkers : contains(h.stderr, m) THEN "Err"
    ELSE IF ~h.exit_ok
    THEN IF \E m \in NotInstalledMarkers : contains(h.stderr, m)
         THEN "NotInstalled" ELSE "Err"
    ELSE IF h.stdout = "not utf8" THEN "NotInstalled"
    ELSE IF h.stdout = "not json" THEN "Err"
    ELSE h.stdout

\* status() on one run of the helper: the status of its Ok(StatusInfo), or
\* "Err".
status_query(h) ==
    IF ~h.exe_exists THEN "NotInstalled"
    ELSE IF ~h.spawn_ok THEN "NotInstalled"
    ELSE IF contains(h.stderr, "Permission denied") \/ contains(h.stderr, "os error 13")
    THEN "Err"
    ELSE IF ~h.exit_ok
    THEN IF \/ contains(h.stderr, "not installed")
            \/ contains(h.stderr, "not found")
            \/ contains(h.stderr, "does not exist")
            \/ contains(h.stderr, "zh: cannot find")
            \/ contains(h.stderr, "zh: does not exist")
         THEN "NotInstalled" ELSE "Err"
    ELSE IF h.stdout = "not utf8" THEN "NotInstalled"
    ELSE IF h.stdout = "not json" THEN "NotInstalled"
    ELSE h.stdout

\* One call of status() and its return.
StatusQuery ==
    /\ query = NoQuery
    /\ \E h \in HelperRuns :
         query' = [helper |-> h, result |-> status_query(h)]
    /\ UNCHANGED <<shared, svc, enable_service_mode, mon, call, inited, notif,
                   run, obs, enable_tun_mode, priv, resolved, safe>>

StatusReturn ==
    /\ query # NoQuery
    /\ query' = NoQuery
    /\ UNCHANGED <<shared, svc, enable_service_mode, mon, call, inited, notif,
                   run, obs, enable_tun_mode, priv, resolved, safe>>

\* ------------------------------------------------- the control operations
\* What a helper command that exited with success can leave behind: its
\* target state, or no change (the launch returns before the helper is done,
\* or the shell wrapper's last command decides the exit code).
helper_effect(op, s) ==
    CASE op = "install"   -> IF s = "NotInstalled"
                             THEN {"NotInstalled", "Stopped", "Running"} ELSE {s}
      [] op = "update"    -> {s}
      [] op = "uninstall" -> {s, "NotInstalled"}
      [] op = "start"     -> IF s = "Stopped" THEN {"Stopped", "Running"} ELSE {s}
      [] op = "stop"      -> IF s = "Running" THEN {"Running", "Stopped"} ELSE {s}
      [] op = "restart"   -> IF s = "NotInstalled" THEN {s} ELSE {s, "Running"}

\* The pre-condition checks: the call returns Ok at once when its first
\* status query is Ok and reports this.
install_precheck_running_only(st) == st = "Running"
install_precheck_skips(st) == st \in {"Stopped", "Running"}
uninstall_precheck_never(st) == FALSE
uninstall_precheck_skips(st) == st = "NotInstalled"
start_precheck_never(st) == FALSE
start_precheck_skips(st) == st = "Running"
stop_precheck_skips(st) == st \in {"Stopped", "NotInstalled"}

precheck_skips(op, st) ==
    CASE op = "install"   -> install_precheck_skips(st)
      [] op = "uninstall" -> uninstall_precheck_skips(st)
      [] op = "start"     -> start_precheck_skips(st)
      [] op = "stop"      -> stop_precheck_skips(st)
      [] op \in {"restart", "update"} -> FALSE

\* A missing executable: install and start fail, update, uninstall and stop
\* return Ok, restart does not look.
missing_exe_result(op) == IF op \in {"install", "start"} THEN "Err" ELSE "Ok"

\* health_check_gate with install gated like start and restart.
health_check_gate_running_only(op, st1) == st1 = "Running"

\* The status that lets a successful call start the monitor.
health_check_gate(op, st1) ==
    IF op = "install" THEN st1 \in {"Running", "Stopped"} ELSE st1 = "Running"

Return(c, summary) ==
    call' = [call EXCEPT ![c] = [summary EXCEPT !.pc = "returned"]]

\* The caller is free for its next call.
Finish(c) ==
    /\ call[c].pc = "returned"
    /\ call' = [call EXCEPT ![c] = Idle]
    /\ UNCHANGED <<shared, svc, enable_service_mode, mon, inited, notif, outside, obs>>

\* The call, up to the point where it hands the helper command to the
\* blocking pool (the elevation primitive).
Begin(c, op) ==
    /\ call[c].pc = "idle"
    /\ \E st \in (IF op \in {"restart", "update"} THEN {"none"} ELSE status),
          exe \in BOOLEAN :
         LET me == [Idle EXCEPT !.op = op, !.st0 = st] IN
         IF st \notin {"Err", "none"} /\ precheck_skips(op, st)
         THEN Return(c, [me EXCEPT !.res = "Ok"])
         ELSE IF ~exe /\ op # "restart"
         THEN Return(c, [me EXCEPT !.res = missing_exe_result(op)])
         ELSE call' = [call EXCEPT ![c] = [me EXCEPT !.pc = "elevating", !.elevated = TRUE]]
    /\ inited' = TRUE
    /\ UNCHANGED <<shared, svc, enable_service_mode, mon, notif, outside, obs>>

\* KILL_FLAG false -> true reaches every monitor thread that exists.
MarkKill(set) ==
    [m \in Monitors |-> IF set /\ Alive(m)
                        THEN [mon[m] EXCEPT !.kill_pending = TRUE] ELSE mon[m]]

kill_cas(op) ==
    IF op = "stop" THEN compare_exchange_weak(KILL_FLAG, FALSE)
                   ELSE compare_exchange(KILL_FLAG, FALSE)

\* The exit status of the elevated child, as success: on Linux start and
\* restart run `/bin/sh -c "<helper> start; for ...; if [ -S sock ]; then
\* chown ... && chmod ...; fi"`, whose status is that of the script's last
\* command; everywhere else the child is the helper itself (on macOS sudo()
\* turns the helper's failure into an Err, which the `??` returns).
child_exit(op, platform, helper_ok, script_ok) ==
    IF platform = "linux" /\ op \in {"start", "restart"} THEN script_ok ELSE helper_ok

\* if !child.success() { bail!(...) }
command_failed(child_ok) == ~child_ok

\* The elevated command completes.  A non-zero exit fails the call; stop and
\* uninstall then raise the kill flag and return, update returns; install,
\* start and restart go on to the health-check gating, a Windows install by
\* way of the wait for the installation.
ElevEnd(c) ==
    LET op == call[c].op
        me == [call[c] EXCEPT !.st0 = "none"]
    IN
    /\ call[c].pc = "elevating"
    /\ \E helper_ok \in BOOLEAN, script_ok \in BOOLEAN :
         LET child_ok == child_exit(op, run.platform, helper_ok, script_ok)
             done == [me EXCEPT !.exit = IF helper_ok THEN "zero" ELSE "nonzero"]
         IN
         /\ svc' \in (IF helper_ok THEN helper_effect(op, svc) ELSE {svc})
         /\ IF command_failed(child_ok)
            THEN /\ Return(c, [done EXCEPT !.res = "Err"])
                 /\ UNCHANGED <<KILL_FLAG, mon>>
            ELSE IF op \in {"stop", "uninstall"}
            THEN \E ok \in kill_cas(op) :
                   /\ KILL_FLAG' = (KILL_FLAG \/ ok)
                   /\ mon' = MarkKill(ok)
                   /\ Return(c, [done EXCEPT !.res = "Ok", !.kill_set = ok])
            ELSE IF op = "update"
            THEN /\ Return(c, [done EXCEPT !.res = "Ok"])
                 /\ UNCHANGED <<KILL_FLAG, mon>>
            ELSE /\ call' = [call EXCEPT ![c] =
                        [done EXCEPT !.pc = IF op = "install" /\ run.platform = "windows"
                                            THEN "polling" ELSE "post"]]
                 /\ UNCHANGED <<KILL_FLAG, mon>>
    /\ UNCHANGED <<IPC_STATE, HEALTH_CHECK_RUNNING, enable_service_mode, inited,
                   notif, outside, obs>>

\* The wait after install leaving only when the service is Running.
PollUntilRunning(c) ==
    /\ call[c].pc = "polling"
    /\ \E st \in status :
         LET n == call[c].polls + 1 IN
         call' = [call EXCEPT ![c].polls = n,
                              ![c].polled = st,
                              ![c].pc = IF st = "Running" \/ n = PollAttempts
                                        THEN "post" ELSE "polling"]
    /\ UNCHANGED <<shared, svc, enable_service_mode, mon, inited, notif, outside, obs>>

\* Windows, after install: query the status once a second until the service
\* shows as installed, PollAttempts times at most.
Poll(c) ==
    /\ call[c].pc = "polling"
    /\ \E st \in status :
         LET n == call[c].polls + 1 IN
         call' = [call EXCEPT ![c].polls = n,
                              ![c].polled = st,
                              ![c].pc = IF st \notin {"NotInstalled", "Err"} \/ n = PollAttempts
                                        THEN "post" ELSE "polling"]
    /\ UNCHANGED <<shared, svc, enable_service_mode, mon, inited, notif, outside, obs>>

\* After the command: read the service-mode flag, query the status, read
\* HEALTH_CHECK_RUNNING, possibly spawn the monitor; return Ok.
Post(c) ==
    LET op == call[c].op
        me == [call[c] EXCEPT !.res = "Ok", !.en = enable_service_mode]
    IN
    /\ call[c].pc = "post"
    /\ IF ~enable_service_mode
       THEN /\ Return(c, me)
            /\ UNCHANGED <<KILL_FLAG, mon>>
       ELSE \E st1 \in status :
              IF health_check_gate(op, st1) /\ ~HEALTH_CHECK_RUNNING
              THEN /\ spawn_health_check
                   /\ Return(c, [me EXCEPT !.st1 = st1, !.spawned = TRUE])
              ELSE /\ Return(c, [me EXCEPT !.st1 = st1, !.hcr = HEALTH_CHECK_RUNNING])
                   /\ UNCHANGED <<KILL_FLAG, mon>>
    /\ UNCHANGED <<IPC_STATE, HEALTH_CHECK_RUNNING, svc, enable_service_mode,
                   inited, notif, outside, obs>>

\* init_service(): spawn without looking at HEALTH_CHECK_RUNNING, then wait
\* until the thread has published it.
InitBegin(c) ==
    /\ call[c].pc = "idle"
    /\ ~inited
    /\ inited' = TRUE
    /\ \E st \in status :
         LET me == [Idle EXCEPT !.op = "init", !.st0 = st, !.en = enable_service_mode] IN
         IF st = "Running" /\ enable_service_mode
         THEN /\ spawn_health_check
              /\ call' = [call EXCEPT ![c] = [me EXCEPT !.pc = "init_wait", !.spawned = TRUE]]
         ELSE /\ Return(c, [me EXCEPT !.res = "Ok"])
              /\ UNCHANGED <<KILL_FLAG, mon>>
    /\ UNCHANGED <<IPC_STATE, HEALTH_CHECK_RUNNING, svc, enable_service_mode,
                   notif, outside, obs>>

InitWait(c) ==
    /\ call[c].pc = "init_wait"
    /\ HEALTH_CHECK_RUNNING
    /\ Return(c, [call[c] EXCEPT !.res = "Ok"])
    /\ UNCHANGED <<shared, svc, enable_service_mode, mon, inited, notif, outside, obs>>

install_service(c) == Begin(c, "install")
uninstall_service(c) == Begin(c, "uninstall")
start_service(c) == Begin(c, "start")
stop_service(c) == Begin(c, "stop")
restart_service(c) == Begin(c, "restart")
update_service(c) == Begin(c, "update")

Control == \E c \in 1..run.callers :
    \/ InitBegin(c) \/ InitWait(c)
    \/ install_service(c) \/ uninstall_service(c)
    \/ start_service(c) \/ stop_service(c) \/ restart_service(c)
    \/ ElevEnd(c) \/ Post(c) \/ Finish(c)

\* ------------------------------------------------------- the environment
\* The service changes state outside the application (crash, administrator).
EnvService ==
    /\ svc' \in ServiceStatus \ {svc}
    /\ UNCHANGED <<shared, enable_service_mode, mon, call, inited, notif,
                   outside, obs>>

\* patch_verge flips the service-mode flag.
EnvConfig ==
    /\ enable_service_mode' = ~enable_service_mode
    /\ UNCHANGED <<shared, svc, mon, call, inited, notif, outside, obs>>

\* update_tun_config of another call (a second set_tun_mode in flight)
\* patches enable_tun_mode.
EnvTun ==
    /\ enable_tun_mode' = ~enable_tun_mode
    /\ UNCHANGED <<shared, svc, enable_service_mode, mon, call, inited, notif,
                   obs, run, priv, query, resolved, safe>>

\* ------------------------------------------------ the privilege manager
\* privilege/mod.rs: PrivilegedOperation; `enable` is read only of SetTunMode.
PrivilegedOperation ==
    {[type |-> "SetTunMode", enable |-> TRUE],
     [type |-> "SetTunMode", enable |-> FALSE],
     [type |-> "ModifyNetworkSettings", enable |-> FALSE],
     [type |-> "UpdateCorePermissions", enable |-> FALSE]}

\* PrivilegeManager::new(): the handler is always there, auto setup is on.
service_handler == "Some"
auto_service_setup == TRUE

name == "service"

\* A caller of the privilege manager: the operation, where the call is, what
\* its latest is_available read (ipc: the flag, st: the status query, "none"
\* when there was none) and answered, the status auto_setup_service got
\* (setup) and what it returned to warm_up (setup_ret), what became of the
\* handler's execute
\* and of the tun-mode patch, the Service Control calls made, the value
\* returned (ret: Ok or Err; success, message and handler_used of the
\* result value) and the two answers of a confirmation pre-check.
NoPriv == [pc |-> "idle", op |-> "none", ipc |-> "none", st |-> "none",
           avail |-> FALSE, first |-> "none", setup |-> "none",
           setup_ret |-> "none", exec |-> "none",
           patch |-> "none",
           calls |-> {}, ret |-> "none", success |-> FALSE,
           message |-> "none", handler_used |-> "none", confirm |-> FALSE, handler_confirm |-> FALSE]

\* Everything but SetTunMode{enable: true} classified as a disable.
is_disable_operation_others(op) == ~(op.type = "SetTunMode" /\ op.enable)

is_disable_operation(op) == op.type = "SetTunMode" /\ ~op.enable

supports_operation_all(op) == TRUE

supports_operation(op) == op.type = "SetTunMode"

\* Confirmation-free only for the disabling SetTunMode.
handler_requires_confirmation_disable(op) == ~is_disable_operation(op)

\* The handler's requires_confirmation (the trait's default reads the same).
handler_requires_confirmation(op) == op.type # "SetTunMode"

requires_confirmation(op) ==
    IF service_handler = "Some" THEN handler_requires_confirmation(op) ELSE TRUE

\* is_service_installed, where is_service_running was meant.
is_service_running_installed(st) == st \notin {"Err", "NotInstalled", "none"}

\* Ok(status is Running); a status error is Ok(false).
is_service_running(st) == IF st = "Err" THEN FALSE ELSE st = "Running"

is_connected(ipc) == ipc = "Connected"

\* is_available, of the flag it read and of the status it got if it asked.
is_available(ipc, st) ==
    IF ~is_connected(ipc) THEN FALSE ELSE is_service_running(st)

\* The calls of is_available that can happen now: status is queried only
\* past a Connected flag.
Availability ==
    {[ipc |-> IPC_STATE, st |-> st, avail |-> is_available(IPC_STATE, st)] :
        st \in (IF is_connected(IPC_STATE) THEN status ELSE {"none"})}

Asked(p, a) == [p EXCEPT !.ipc = a.ipc, !.st = a.st, !.avail = a.avail]

\* execute_operation returns Ok(PrivilegedOperationResult { .. }).
Result(p, success, message, handler) ==
    [p EXCEPT !.pc = "done", !.ret = "Ok", !.success = success,
              !.message = message, !.handler_used = handler]

\* The fallback of handle_disable_operation lets the patch's error out.
config_direct_result_err(p, patch_ok) ==
    IF patch_ok THEN Result([p EXCEPT !.patch = "Ok"], TRUE, "Some", "config_direct")
    ELSE [p EXCEPT !.patch = "Err", !.pc = "done", !.ret = "Err"]

\* The fallback reports a success whatever the patch did.
config_direct_result_ok(p, patch_ok) ==
    Result([p EXCEPT !.patch = IF patch_ok THEN "Ok" ELSE "Err"], TRUE, "Some", "config_direct")

\* match patch_verge(patch).await { Ok(()) => Ok(success: true ..),
\* Err(e) => Ok(success: false ..) }, handler_used "config_direct".
config_direct_result(p, patch_ok) ==
    Result([p EXCEPT !.patch = IF patch_ok THEN "Ok" ELSE "Err"],
           patch_ok, "Some", "config_direct")

\* The handler's error returned as it is.
wrap_execute_propagating(p, exec) ==
    IF exec = "Err" THEN [p EXCEPT !.exec = exec, !.pc = "done", !.ret = "Err"]
    ELSE IF is_disable_operation(p.op)
    THEN [Result([p EXCEPT !.exec = exec], TRUE, "None", name) EXCEPT !.pc = "idle_check"]
    ELSE Result([p EXCEPT !.exec = exec], TRUE, "None", name)

\* What both paths make of the handler's execute: a result value with
\* handler_used "service"; the disable path then looks whether the service
\* is idle, if the operation succeeded.
wrap_execute(p, exec) ==
    IF exec = "Err" THEN Result([p EXCEPT !.exec = exec], FALSE, "Some", name)
    ELSE IF is_disable_operation(p.op)
    THEN [Result([p EXCEPT !.exec = exec], TRUE, "None", name) EXCEPT !.pc = "idle_check"]
    ELSE Result([p EXCEPT !.exec = exec], TRUE, "None", name)

service_not_running(p) == Result(p, FALSE, "Some", "service_not_running")

\* warm_up is no PrivilegedOperation; a call of it is told by this mark.
WarmUp == [type |-> "warm_up", enable |-> FALSE]

\* warm_up returns Ok(()), whatever auto_setup_service returned to it.
warm_up_result(p, r) == [p EXCEPT !.pc = "done", !.ret = "Ok", !.setup_ret = r]

\* warm_up handing the error of auto_setup_service on (`?`).
setup_failed_propagating(p) ==
    IF p.op = WarmUp THEN [p EXCEPT !.pc = "done", !.ret = "Err", !.setup_ret = "Err"]
    ELSE service_not_running(p)

\* auto_setup_service returned Err: warm_up drops it (let _ =), the enable
\* path answers with service_not_running.
setup_failed(p) ==
    IF p.op = WarmUp THEN warm_up_result(p, "Err") ELSE service_not_running(p)

\* The Service Control operation a waiting privilege call is in.
CallingPcs == {"setup_starting", "installing", "ensure_starting", "stopping",
               "restarting"}

control_op(pc) ==
    CASE pc = "setup_starting"  -> "start"
      [] pc = "installing"      -> "install"
      [] pc = "ensure_starting" -> "start"
      [] pc = "stopping"        -> "stop"
      [] pc = "restarting"      -> "restart"

Calling(p, pc) == [p EXCEPT !.pc = pc, !.calls = @ \cup {control_op(pc)}]

lifecycle == <<shared, svc, mon, inited, notif, obs>>
apart == <<run, query, resolved, safe>>

\* execute_operation, up to the first is_available of either path.
execute_operation(op) ==
    /\ priv.pc = "idle"
    /\ \E a \in Availability :
         LET p == [Asked([NoPriv EXCEPT !.op = op], a) EXCEPT !.first = a] IN
         priv' = IF service_handler = "Some" /\ a.avail
                 THEN [p EXCEPT !.pc = "execute"]
                 ELSE IF is_disable_operation(op)
                 THEN [p EXCEPT !.pc = "config_direct"]
                 ELSE IF service_handler = "Some" /\ auto_service_setup
                 THEN [p EXCEPT !.pc = "auto_setup"]
                 ELSE service_not_running(p)
    /\ UNCHANGED <<lifecycle, apart, call, enable_service_mode, enable_tun_mode>>

\* handler.execute: refuse what is not supported, else send the command;
\* SetTunMode patches the configuration first.
execute ==
    /\ priv.pc = "execute"
    /\ IF ~supports_operation(priv.op)
       THEN /\ priv' = wrap_execute(priv, "Err")
            /\ UNCHANGED enable_tun_mode
       ELSE IF priv.op.type = "SetTunMode"
       THEN \E ok \in BOOLEAN :
              /\ enable_tun_mode' = IF ok THEN priv.op.enable ELSE enable_tun_mode
              /\ priv' = IF ok THEN [priv EXCEPT !.patch = "Ok", !.pc = "ensure"]
                         ELSE wrap_execute([priv EXCEPT !.patch = "Err"], "Err")
       ELSE IF priv.op.type = "UpdateCorePermissions"
       THEN /\ priv' = Calling(priv, "restarting")
            /\ UNCHANGED enable_tun_mode
       ELSE /\ priv' = wrap_execute(priv, "Ok")
            /\ UNCHANGED enable_tun_mode
    /\ UNCHANGED <<lifecycle, apart, call, enable_service_mode>>

\* ensure_service_running starting whatever is not Running.
ensure_service_running_any ==
    /\ priv.pc = "ensure"
    /\ \E st \in status :
         priv' = IF st = "Running" THEN wrap_execute(priv, "Ok")
                 ELSE Calling(priv, "ensure_starting")
    /\ UNCHANGED <<lifecycle, apart, call, enable_service_mode, enable_tun_mode>>

\* request_core_restart: Running is enough, Stopped is started, anything
\* else is an error.
ensure_service_running ==
    /\ priv.pc = "ensure"
    /\ \E st \in status :
         priv' = IF st = "Running" THEN wrap_execute(priv, "Ok")
                 ELSE IF st = "Stopped" THEN Calling(priv, "ensure_starting")
                 ELSE wrap_execute(priv, "Err")
    /\ UNCHANGED <<lifecycle, apart, call, enable_service_mode, enable_tun_mode>>

\* The idle check stopping the service without reading the configuration.
check_and_stop_service_always ==
    /\ priv.pc = "idle_check"
    /\ priv' = Calling(priv, "stopping")
    /\ UNCHANGED <<lifecycle, apart, call, enable_service_mode, enable_tun_mode>>

\* After a disable that succeeded: stop the service if tun mode is off.
check_and_stop_service_if_idle ==
    /\ priv.pc = "idle_check"
    /\ priv' = IF ~enable_tun_mode THEN Calling(priv, "stopping")
               ELSE [priv EXCEPT !.pc = "done"]
    /\ UNCHANGED <<lifecycle, apart, call, enable_service_mode, enable_tun_mode>>

\* handle_disable_operation with the handler unavailable: patch the
\* configuration directly.
config_direct ==
    /\ priv.pc = "config_direct"
    /\ IF priv.op.type = "SetTunMode"
       THEN \E ok \in BOOLEAN :
              /\ enable_tun_mode' = IF ok THEN FALSE ELSE enable_tun_mode
              /\ priv' = config_direct_result(priv, ok)
       ELSE /\ priv' = Result(priv, FALSE, "Some", "unsupported")
            /\ UNCHANGED enable_tun_mode
    /\ UNCHANGED <<lifecycle, apart, call, enable_service_mode>>

\* auto_setup_service installing whatever is not Running.
auto_setup_service_reinstall ==
    /\ priv.pc = "auto_setup"
    /\ \E st \in status :
         LET p == [priv EXCEPT !.setup = st] IN
         priv' = IF st = "Running" THEN [p EXCEPT !.pc = "recheck"]
                 ELSE Calling(p, "installing")
    /\ UNCHANGED <<lifecycle, apart, call, enable_service_mode, enable_tun_mode>>

\* auto_setup_service: nothing to do, start, or install.
auto_setup_service ==
    /\ priv.pc = "auto_setup"
    /\ \E st \in status :
         LET p == [priv EXCEPT !.setup = st] IN
         priv' = IF st = "Running" THEN [p EXCEPT !.pc = "recheck"]
                 ELSE IF st = "Stopped" THEN Calling(p, "setup_starting")
                 ELSE Calling(p, "installing")
    /\ UNCHANGED <<lifecycle, apart, call, enable_service_mode, enable_tun_mode>>

\* After the install: enable service mode (a failure is logged), then ask
\* whether the handler is available.
auto_setup_installed ==
    /\ priv.pc = "installed"
    /\ \E ok \in BOOLEAN :
         enable_service_mode' = IF ok THEN TRUE ELSE enable_service_mode
    /\ \E a \in Availability :
         priv' = [Asked(priv, a) EXCEPT !.pc = IF a.avail THEN "recheck" ELSE "installed_wait"]
    /\ UNCHANGED <<lifecycle, apart, call, enable_tun_mode>>

\* Two seconds later: ask again, start the service if it still is not.
auto_setup_retry ==
    /\ priv.pc = "installed_wait"
    /\ \E a \in Availability :
         priv' = IF a.avail THEN [Asked(priv, a) EXCEPT !.pc = "recheck"]
                 ELSE Calling(Asked(priv, a), "setup_starting")
    /\ UNCHANGED <<lifecycle, apart, call, enable_service_mode, enable_tun_mode>>

\* The enable path after a setup that returned Ok.
\* The availability check after the setup marking the connection itself when
\* it finds the service Running.
available_after_setup_marking ==
    /\ priv.pc = "recheck"
    /\ priv.op # WarmUp
    /\ \E a \in Availability :
         priv' = IF a.avail THEN [Asked(priv, a) EXCEPT !.pc = "execute"]
                 ELSE service_not_running(Asked(priv, a))
    /\ IPC_STATE' = IF svc = "Running" THEN "Connected" ELSE IPC_STATE
    /\ UNCHANGED <<KILL_FLAG, HEALTH_CHECK_RUNNING, svc, mon, inited, notif, obs,
                   apart, call, enable_service_mode, enable_tun_mode>>

available_after_setup ==
    /\ priv.pc = "recheck"
    /\ priv.op # WarmUp
    /\ \E a \in Availability :
         priv' = IF a.avail THEN [Asked(priv, a) EXCEPT !.pc = "execute"]
                 ELSE service_not_running(Asked(priv, a))
    /\ UNCHANGED <<lifecycle, apart, call, enable_service_mode, enable_tun_mode>>

\* The privilege call enters the Service Control operation it waits for.
control_call ==
    /\ priv.pc \in CallingPcs
    /\ Begin(1, control_op(priv.pc))

\* That operation has returned.
control_returned ==
    LET res == call[1].res IN
    /\ priv.pc \in CallingPcs
    /\ call[1].pc = "returned"
    /\ call' = [call EXCEPT ![1] = Idle]
    /\ priv' = CASE priv.pc = "setup_starting" ->
                      IF res = "Ok" THEN [priv EXCEPT !.pc = "recheck"]
                      ELSE setup_failed(priv)
                 [] priv.pc = "installing" ->
                      IF res = "Ok" THEN [priv EXCEPT !.pc = "installed"]
                      ELSE setup_failed(priv)
                 [] priv.pc \in {"ensure_starting", "restarting"} ->
                      wrap_execute(priv, res)
                 [] priv.pc = "stopping" -> [priv EXCEPT !.pc = "done"]
    /\ UNCHANGED <<lifecycle, apart, enable_service_mode, enable_tun_mode>>

\* operations.rs: whether the operation needs the user's confirmation, and
\* the privilege status if it does.
precheck_privilege_operation(op) ==
    /\ priv.pc = "idle"
    /\ \E a \in Availability :
         LET p == [NoPriv EXCEPT !.op = op, !.pc = "prechecked", !.ret = "Ok",
                                 !.confirm = requires_confirmation(op),
                                 !.handler_confirm = handler_requires_confirmation(op)]
         IN priv' = IF requires_confirmation(op) THEN Asked(p, a) ELSE p
    /\ UNCHANGED <<lifecycle, apart, call, enable_service_mode, enable_tun_mode>>

\* The caller has its answer.
PrivReturn ==
    /\ priv.pc \in {"done", "prechecked"}
    /\ priv' = NoPriv
    /\ UNCHANGED <<lifecycle, apart, call, enable_service_mode, enable_tun_mode>>

Privilege ==
    \/ \E op \in PrivilegedOperation :
         execute_operation(op) \/ precheck_privilege_operation(op)
    \/ execute \/ ensure_service_running \/ check_and_stop_service_if_idle
    \/ config_direct \/ auto_setup_service \/ auto_setup_installed
    \/ auto_setup_retry \/ available_after_setup
    \/ control_call \/ control_returned \/ PrivReturn

\* ------------------------------------------------------------- warm_up
\* warm_up: ask whether the handler is available; if it is not, and auto
\* setup is on, run auto_setup_service.
warm_up ==
    /\ priv.pc = "idle"
    /\ \E a \in Availability :
         LET p == [Asked([NoPriv EXCEPT !.op = WarmUp], a) EXCEPT !.first = a] IN
         priv' = IF service_handler = "Some" /\ ~a.avail /\ auto_service_setup
                 THEN [p EXCEPT !.pc = "auto_setup"]
                 ELSE warm_up_result(p, "none")
    /\ UNCHANGED <<lifecycle, apart, call, enable_service_mode, enable_tun_mode>>

\* auto_setup_service returned Ok(()) to warm_up.
warm_up_setup_ok ==
    /\ priv.pc = "recheck"
    /\ priv.op = WarmUp
    /\ priv' = warm_up_result(priv, "Ok")
    /\ UNCHANGED <<lifecycle, apart, call, enable_service_mode, enable_tun_mode>>

WarmUpCall ==
    \/ warm_up \/ auto_setup_service \/ auto_setup_installed
    \/ auto_setup_retry \/ control_call \/ control_returned
    \/ warm_up_setup_ok \/ PrivReturn

\* ------------------------------------------------------ service_remove
\* simple_service.rs: a call of service_remove: the summary it got (status,
\* installed), the control calls it made in order, what stop_service
\* returned, what became of the service-mode patch, and the value returned.
NoRemove == [pc |-> "remove", status |-> "none", installed |-> FALSE,
             calls |-> <<>>, stop |-> "none", patch |-> "none", ret |-> "none"]

\* service_status_summary's status field: that of Ok(status_info), or
\* NotInstalled when the query failed.
summary_status(st) == IF st = "Err" THEN "NotInstalled" ELSE st

\* service_status_summary's installed field: false when the first query
\* failed, else is_service_installed().unwrap_or(false) of a further query.
summary_installed(first, st) ==
    IF first = "Err" THEN FALSE ELSE st \notin {"Err", "NotInstalled"}

RemovePcs == {"remove_stopping", "remove_uninstalling"}
remove_op(pc) == IF pc = "remove_stopping" THEN "stop" ELSE "uninstall"

Removing(p, pc) == [p EXCEPT !.pc = pc, !.calls = Append(@, remove_op(pc))]

\* service_remove: the first status query of service_status_summary.
service_remove ==
    /\ priv = NoPriv
    /\ \E st \in status :
         priv' = [NoRemove EXCEPT !.pc = "summary", !.status = st]
    /\ UNCHANGED <<lifecycle, apart, call, enable_service_mode, enable_tun_mode>>

\* The rest of service_status_summary (is_service_installed asks again),
\* then: not installed, nothing to do; Running, stop first; else uninstall.
service_status_summary ==
    /\ priv.pc = "summary"
    /\ \E st \in status :
         LET installed == summary_installed(priv.status, st)
             p == [priv EXCEPT !.status = summary_status(priv.status),
                               !.installed = installed]
         IN priv' = IF ~installed THEN [p EXCEPT !.pc = "removed", !.ret = "Ok"]
                    ELSE IF p.status = "Running"
                    THEN Removing(p, "remove_stopping")
                    ELSE Removing(p, "remove_uninstalling")
    /\ UNCHANGED <<lifecycle, apart, call, enable_service_mode, enable_tun_mode>>


\* service_remove enters stop_service or uninstall_service.
remove_call ==
    /\ priv.pc \in RemovePcs
    /\ Begin(1, remove_op(priv.pc))

\* service_remove giving up when stop_service failed.
remove_returned_abort ==
    LET res == call[1].res IN
    /\ priv.pc \in RemovePcs
    /\ call[1].pc = "returned"
    /\ call' = [call EXCEPT ![1] = Idle]
    /\ priv' = IF priv.pc = "remove_stopping"
               THEN IF res = "Ok"
                    THEN Removing([priv EXCEPT !.stop = res], "remove_uninstalling")
                    ELSE [priv EXCEPT !.pc = "removed", !.stop = res, !.ret = "Err"]
               ELSE IF res = "Ok" THEN [priv EXCEPT !.pc = "remove_patch"]
               ELSE [priv EXCEPT !.pc = "removed", !.ret = "Err"]
    /\ UNCHANGED <<lifecycle, apart, enable_service_mode, enable_tun_mode>>

\* The control call has returned: a stop error is logged and the uninstall
\* follows; an uninstall error is returned, Ok goes on to the patch.
remove_returned ==
    LET res == call[1].res IN
    /\ priv.pc \in RemovePcs
    /\ call[1].pc = "returned"
    /\ call' = [call EXCEPT ![1] = Idle]
    /\ priv' = IF priv.pc = "remove_stopping"
               THEN Removing([priv EXCEPT !.stop = res], "remove_uninstalling")
               ELSE IF res = "Ok" THEN [priv EXCEPT !.pc = "remove_patch"]
               ELSE [priv EXCEPT !.pc = "removed", !.ret = "Err"]
    /\ UNCHANGED <<lifecycle, apart, enable_service_mode, enable_tun_mode>>

\* update_service_mode_config(false); its error is logged.
remove_patch ==
    /\ priv.pc = "remove_patch"
    /\ \E ok \in BOOLEAN :
         /\ enable_service_mode' = IF ok THEN FALSE ELSE enable_service_mode
         /\ priv' = [priv EXCEPT !.pc = "removed", !.ret = "Ok",
                                 !.patch = IF ok THEN "Ok" ELSE "Err"]
    /\ UNCHANGED <<lifecycle, apart, call, enable_tun_mode>>

RemoveReturn ==
    /\ priv.pc = "removed"
    /\ priv' = NoPriv
    /\ UNCHANGED <<lifecycle, apart, call, enable_service_mode, enable_tun_mode>>

Remove ==
    \/ service_remove \/ service_status_summary \/ remove_call
    \/ remove_returned \/ remove_patch \/ RemoveReturn

\* --------------------------------------------------- the path resolver
SERVICE_NAME == "nyanpasu-service"
\* SERVICE_NAME-<TAURI_ENV_TARGET_TRIPLE>; EXE_SUFFIX ends both names alike.
TripleName == "nyanpasu-service-<triple>"

\* service_file_names(): the plain name, then the one with the target
\* triple if the build knows it.
service_file_names(triple) ==
    IF triple THEN <<SERVICE_NAME, TripleName>> ELSE <<SERVICE_NAME>>

\* dir.join(sub).join(file); sub "" is the directory itself.
join(dir, sub, file) == [dir |-> dir, sub |-> sub, file |-> file]

InDir(dir, sub, names) == [i \in 1..Len(names) |-> join(dir, sub, names[i])]

NoFile == join("none", "", "none")

\* What a resolution finds: the directory of the current executable and the
\* install directory ("none": current_exe() or app_install_dir() fails; they
\* may be the same directory), PROGRAMFILES and PROGRAMDATA on Windows
\* ("none": not set), whether the build has a target triple, and further
\* down the files that exist.
Places(platform) ==
    [exe_dir : {"none", "/app"},
     install_dir : {"none", "/app", "/opt"},
     program_files : IF platform = "windows" THEN {"none", "/pf"} ELSE {"none"},
     program_data : IF platform = "windows" THEN {"none", "/pd"} ELSE {"none"},
     triple : BOOLEAN,
     platform : {platform}]

\* The candidates with the install directory put before its sidecar.
get_service_path_candidates_app_first(e) ==
    LET names == service_file_names(e.triple)
        windows == e.platform = "windows"
    IN (IF e.exe_dir # "none"
        THEN InDir(e.exe_dir, "sidecar", names) \o InDir(e.exe_dir, "", names)
        ELSE <<>>)
       \o (IF windows /\ e.program_files # "none"
           THEN InDir(e.program_files, "nyanpasu", names) ELSE <<>>)
       \o (IF e.install_dir # "none"
           THEN InDir(e.install_dir, "", names) \o InDir(e.install_dir, "sidecar", names)
           ELSE <<>>)
       \o (IF windows /\ e.program_data # "none"
           THEN InDir(e.program_data, "nyanpasu-service/data", names) ELSE <<>>)

get_service_path_candidates(e) ==
    LET names == service_file_names(e.triple)
        windows == e.platform = "windows"
    IN (IF e.exe_dir # "none"
        THEN InDir(e.exe_dir, "sidecar", names) \o InDir(e.exe_dir, "", names)
        ELSE <<>>)
       \o (IF windows /\ e.program_files # "none"
           THEN InDir(e.program_files, "nyanpasu", names) ELSE <<>>)
       \o (IF e.install_dir # "none"
           THEN InDir(e.install_dir, "sidecar", names) \o InDir(e.install_dir, "", names)
           ELSE <<>>)
       \o (IF windows /\ e.program_data # "none"
           THEN InDir(e.program_data, "nyanpasu-service/data", names) ELSE <<>>)

Range(s) == {s[i] : i \in 1..Len(s)}

\* The places with at most MaxFiles of the candidate files existing.
Environments(platform) ==
    UNION {{[place |-> e, exists |-> x] :
              x \in {y \in SUBSET Range(get_service_path_candidates(e)) :
                        Cardinality(y) <= MaxFiles}} :
           e \in Places(platform)}

\* get_service_path: the first candidate that exists; else the fallback in
\* the install directory, which `app_install_dir()?` needs.
get_service_path(env) ==
    LET candidates == get_service_path_candidates(env.place)
        found == {i \in 1..Len(candidates) : candidates[i] \in env.exists}
    IN IF found # {}
       THEN [ok |-> TRUE, path |-> candidates[CHOOSE i \in found : \A j \in found : i <= j]]
       ELSE IF env.place.install_dir = "none"
       THEN [ok |-> FALSE, path |-> NoFile]
       ELSE [ok |-> TRUE, path |-> join(env.place.install_dir, "", SERVICE_NAME)]

\* SERVICE_PATH: get_service_path, or the install directory, or the
\* directory of the executable; current_exe().unwrap() panics.
SERVICE_PATH(env) ==
    LET got == get_service_path(env) IN
    IF got.ok THEN got
    ELSE IF env.place.install_dir # "none"
    THEN [ok |-> TRUE, path |-> join(env.place.install_dir, "", SERVICE_NAME)]
    ELSE IF env.place.exe_dir # "none"
    THEN [ok |-> TRUE, path |-> join(env.place.exe_dir, "", SERVICE_NAME)]
    ELSE [ok |-> FALSE, path |-> NoFile]

\* A process resolves the path of the helper.
ResolvePath ==
    /\ resolved = NoPath
    /\ \E env \in Environments(run.platform) :
         resolved' = [pc |-> "resolved", env |-> env,
                      result |-> get_service_path(env),
                      cached |-> SERVICE_PATH(env)]
    /\ UNCHANGED <<shared, svc, enable_service_mode, mon, call, inited, notif,
                   run, obs, enable_tun_mode, priv, query, safe>>

PathReturn ==
    /\ resolved # NoPath
    /\ resolved' = NoPath
    /\ UNCHANGED <<shared, svc, enable_service_mode, mon, call, inited, notif,
                   run, obs, enable_tun_mode, priv, query, safe>>

\* The Lazy cell of SERVICE_PATH: empty until its first access.
Uninit == [ok |-> FALSE, path |-> join("uninit", "", "none")]

\* A Lazy that runs its initializer at every access.
force_fresh(cell, env) == SERVICE_PATH(env)

\* Lazy::force: the initializer runs at the first access only.
force(cell, env) == IF cell = Uninit THEN SERVICE_PATH(env) ELSE cell

\* The process starts, in some place with some files; nothing has touched
\* SERVICE_PATH yet.
ProcessStart ==
    /\ resolved = NoPath
    /\ \E env \in Environments(run.platform) :
         resolved' = [pc |-> "running", env |-> env, cell |-> Uninit,
                      exists |-> "none"]
    /\ UNCHANGED <<shared, svc, enable_service_mode, mon, call, inited, notif,
                   run, obs, enable_tun_mode, priv, query, safe>>

\* A helper file is installed or removed while the process runs.
EnvFiles ==
    /\ resolved # NoPath
    /\ \E f \in Range(get_service_path_candidates(resolved.env.place)) :
         LET x == IF f \in resolved.env.exists THEN resolved.env.exists \ {f}
                  ELSE resolved.env.exists \cup {f}
         IN /\ Cardinality(x) <= MaxFiles
            /\ resolved' = [resolved EXCEPT !.env.exists = x]
    /\ UNCHANGED <<shared, svc, enable_service_mode, mon, call, inited, notif,
                   run, obs, enable_tun_mode, priv, query, safe>>

\* A control operation builds its command line from SERVICE_PATH.
ServicePathAccess ==
    /\ resolved # NoPath
    /\ resolved' = [resolved EXCEPT !.cell = force(resolved.cell, resolved.env)]
    /\ UNCHANGED <<shared, svc, enable_service_mode, mon, call, inited, notif,
                   run, obs, enable_tun_mode, priv, query, safe>>

\* status(): SERVICE_PATH.as_path().exists(), looked up in the files as they
\* are now.
StatusExists ==
    /\ resolved # NoPath
    /\ LET cell == force(resolved.cell, resolved.env) IN
       resolved' = [resolved EXCEPT !.cell = cell,
                       !.exists = IF cell.path \in resolved.env.exists
                                  THEN "yes" ELSE "no"]
    /\ UNCHANGED <<shared, svc, enable_service_mode, mon, call, inited, notif,
                   run, obs, enable_tun_mode, priv, query, safe>>

\* ------------------------------------------- the task of a notification
\* The run types the task tells apart: Normal, Service, and the rest of the
\* `_` arm.
RunType == {"Normal", "Service", "other"}

\* A restart whenever the state and "runs as a service" disagree.
restart_needed_mismatch(state, run_type) ==
    (state = "Connected") # (run_type = "Service")

\* match (state, run_type): (Connected, Normal) | (Disconnected, Service).
restart_needed(state, run_type) ==
    \/ state = "Connected" /\ run_type = "Normal"
    \/ state = "Disconnected" /\ run_type = "Service"

\* The spawned task starts: with service mode read as disabled it is over.
CoreTaskStart ==
    /\ core.pc = "spawned"
    /\ core' = [core EXCEPT !.pc = IF core.enabled THEN "status" ELSE "done"]
    /\ UNCHANGED <<shared, svc, enable_service_mode, mon, call, inited,
                   lastNote, noteSeq, notes, outside, obs>>

\* CoreManager::status() has answered: restart the core or leave it.
CoreTaskStatus ==
    /\ core.pc = "status"
    /\ \E run_type \in RunType :
         core' = [core EXCEPT !.pc = "done", !.run_type = run_type,
                              !.run_core = restart_needed(core.state, run_type)]
    /\ UNCHANGED <<shared, svc, enable_service_mode, mon, call, inited,
                   lastNote, noteSeq, notes, outside, obs>>

\* --------------------------------------------------------- safe_async_op
\* The operation wrapped: the second at which it is ready (Never: it stays
\* pending) and what it yields then.
Never == -1
Completions == {Never} \cup (0 .. TIMEOUT_SECS + MaxLate)
OpResults == {"Ok", "Err"}

elsewhere == <<shared, svc, enable_service_mode, mon, call, inited, notif, obs,
               run, enable_tun_mode, priv, query, resolved>>

\* tokio::time::timeout looking at the deadline before the operation.
timeout_poll_deadline_first(ready, elapsed, op) ==
    IF elapsed THEN "Timeout" ELSE IF ready THEN op ELSE "Pending"

\* One poll of timeout(30 s, operation): the operation is polled first, the
\* deadline only if it is still pending; Ok(result) => result, Err(_) =>
\* the timeout error.
timeout_poll(ready, elapsed, op) ==
    IF ready THEN op ELSE IF elapsed THEN "Timeout" ELSE "Pending"

OpReady == safe.completes # Never /\ safe.completes <= safe.clock
DeadlinePassed == safe.clock >= TIMEOUT_SECS

\* safe_async_op(operation) is awaited.
safe_async_op ==
    /\ safe = NoSafe
    /\ \E d \in Completions, r \in OpResults :
         safe' = [pc |-> "pending", clock |-> 0, completes |-> d, op |-> r,
                  result |-> "none"]
    /\ UNCHANGED elsewhere

\* A second passes; the task may be polled late.
SafeTick ==
    /\ safe.pc = "pending"
    /\ safe.clock < TIMEOUT_SECS + MaxLate
    /\ safe' = [safe EXCEPT !.clock = @ + 1]
    /\ UNCHANGED elsewhere

\* The task is polled and has its value.
SafePoll ==
    /\ safe.pc = "pending"
    /\ LET got == timeout_poll(OpReady, DeadlinePassed, safe.op) IN
       /\ got # "Pending"
       /\ safe' = [safe EXCEPT !.pc = "returned", !.result = got]
    /\ UNCHANGED elsewhere

SafeReturn ==
    /\ safe.pc = "returned"
    /\ safe' = NoSafe
    /\ UNCHANGED elsewhere

\* ------------------------------------------------------ specifications
InitShared ==
    /\ IPC_STATE = "Disconnected"
    /\ KILL_FLAG = FALSE
    /\ HEALTH_CHECK_RUNNING = FALSE
    /\ svc \in ServiceStatus
    /\ enable_service_mode \in BOOLEAN
    /\ call = [c \in Callers |-> Idle]
    /\ lastNote = "none"
    /\ noteSeq = 0
    /\ obs = <<>>
    /\ notes = <<>>
    /\ enable_tun_mode = FALSE
    /\ priv = NoPriv
    /\ query = NoQuery
    /\ resolved = NoPath
    /\ core = NoTask
    /\ safe = NoSafe

\* The application: nothing spawned yet, any callers, any interleaving.
Init ==
    /\ InitShared
    /\ mon = [m \in Monitors |-> NoMonitor]
    /\ inited = FALSE
    /\ run = [callers |-> 1, slots |-> MaxMonitors, checks |-> MaxRaceChecks,
              trace |-> FALSE,
              platform |-> "linux"]

Next == Monitor \/ Control \/ EnvService \/ EnvConfig

Spec == Init /\ [][Next]_vars

\* Two callers race through the control operations; one thread slot.
InitRace ==
    /\ InitShared
    /\ mon = [m \in Monitors |-> NoMonitor]
    /\ inited = FALSE
    /\ run = [callers |-> 2, slots |-> 1, checks |-> MaxRaceChecks,
              trace |-> FALSE,
              platform |-> "linux"]

NextRace == Monitor \/ Control

SpecRace == InitRace /\ [][NextRace]_vars

\* The monitor loop on its own, as init_service has just spawned it, with the
\* log of what it observes and notifies; stop_service is its only caller.
InitLoop ==
    /\ InitShared
    /\ mon = [m \in Monitors |-> IF m = 1 THEN [NoMonitor EXCEPT !.pc = "spawned"]
                                          ELSE NoMonitor]
    /\ inited = TRUE
    /\ run = [callers |-> 1, slots |-> 1, checks |-> MaxChecks, trace |-> TRUE,
              platform |-> "linux"]

NextLoop ==
    \/ Monitor
    \/ EnvService
    \/ \E c \in 1..run.callers : stop_service(c) \/ ElevEnd(c) \/ Finish(c)

SpecLoop == InitLoop /\ [][NextLoop]_vars

\* Application start: init_service as caller 1 while a second caller stops
\* or uninstalls the service.  The spawned thread gets to run, and the wait
\* of init_service sees a flag that stays true.
InitStart ==
    /\ InitShared
    /\ mon = [m \in Monitors |-> NoMonitor]
    /\ inited = FALSE
    /\ run = [callers |-> 2, slots |-> 1, checks |-> MaxRaceChecks,
              trace |-> FALSE, platform |-> "linux"]

NextStart ==
    \/ Monitor
    \/ InitBegin(1) \/ InitWait(1) \/ Finish(1)
    \/ stop_service(2) \/ uninstall_service(2) \/ ElevEnd(2) \/ Finish(2)
    \/ EnvService

SpecStart ==
    /\ InitStart /\ [][NextStart]_vars
    /\ WF_vars(Monitor)
    /\ WF_vars(InitWait(1))

\* service_remove with one monitor loop running and the service changing
\* under it; its stop_service and uninstall_service run as caller 1.
InitRemove ==
    /\ InitShared
    /\ mon = [m \in Monitors |-> IF m = 1 THEN [NoMonitor EXCEPT !.pc = "spawned"]
                                          ELSE NoMonitor]
    /\ inited = TRUE
    /\ run = [callers |-> 1, slots |-> 1, checks |-> MaxRaceChecks,
              trace |-> FALSE, platform |-> "linux"]

NextRemove == Monitor \/ Remove \/ ElevEnd(1) \/ EnvService

SpecRemove == InitRemove /\ [][NextRemove]_vars

\* One caller on each of the builds, with update_service and the Windows
\* wait after install.
InitExit ==
    /\ InitShared
    /\ mon = [m \in Monitors |-> NoMonitor]
    /\ inited = TRUE
    /\ \E p \in Platforms :
         run = [callers |-> 1, slots |-> 1, checks |-> MaxRaceChecks,
                trace |-> FALSE, platform |-> p]

NextExit ==
    \/ Monitor
    \/ \E c \in 1..run.callers :
         \/ install_service(c) \/ update_service(c) \/ uninstall_service(c)
         \/ start_service(c) \/ stop_service(c) \/ restart_service(c)
         \/ ElevEnd(c) \/ Poll(c) \/ Post(c) \/ Finish(c)

SpecExit == InitExit /\ [][NextExit]_vars

\* The Windows build, where the elevated install returns before the service
\* is registered: the service changes while install_service waits.
InitPoll ==
    /\ InitShared
    /\ mon = [m \in Monitors |-> NoMonitor]
    /\ inited = TRUE
    /\ run = [callers |-> 1, slots |-> 1, checks |-> MaxRaceChecks,
              trace |-> FALSE, platform |-> "windows"]

NextPoll == NextExit \/ EnvService

SpecPoll == InitPoll /\ [][NextPoll]_vars

\* The privilege manager with one caller, over the service lifecycle: its
\* Service Control calls run as caller 1, the monitor runs beside it and the
\* service changes under it.
InitPriv ==
    /\ InitShared
    /\ mon = [m \in Monitors |-> NoMonitor]
    /\ inited = TRUE
    /\ run = [callers |-> 1, slots |-> 1, checks |-> MaxRaceChecks,
              trace |-> FALSE, platform |-> "linux"]

NextPriv ==
    \/ Monitor
    \/ Privilege
    \/ ElevEnd(1) \/ Post(1)
    \/ EnvService

SpecPriv == InitPriv /\ [][NextPriv]_vars

\* The privilege manager as in SpecPriv, with enable_tun_mode patched by
\* other calls while this one runs.
NextTun == NextPriv \/ EnvTun

SpecTun == InitPriv /\ [][NextTun]_vars

\* Every writer and reader of the IPC state side by side: the monitor, the
\* privilege manager with its service handler, which runs install, start,
\* stop and restart as caller 1, and a second caller of uninstall_service.
InitFrame ==
    /\ InitShared
    /\ mon = [m \in Monitors |-> NoMonitor]
    /\ inited = TRUE
    /\ run = [callers |-> 2, slots |-> 1, checks |-> MaxRaceChecks,
              trace |-> FALSE, platform |-> "linux"]

NextFrame ==
    \/ Monitor
    \/ Privilege
    \/ ElevEnd(1) \/ Post(1)
    \/ uninstall_service(2) \/ ElevEnd(2) \/ Finish(2)

SpecFrame == InitFrame /\ [][NextFrame]_vars

\* warm_up at start-up: its Service Control calls run as caller 1, beside
\* the monitor and a second caller of uninstall_service.
NextWarm ==
    \/ Monitor
    \/ WarmUpCall
    \/ ElevEnd(1) \/ Post(1)
    \/ uninstall_service(2) \/ ElevEnd(2) \/ Finish(2)

SpecWarm == InitFrame /\ [][NextWarm]_vars

\* The path of the helper resolved on each of the builds, in every place.
InitPath ==
    /\ InitShared
    /\ mon = [m \in Monitors |-> NoMonitor]
    /\ inited = TRUE
    /\ \E p \in Platforms :
         run = [callers |-> 1, slots |-> 1, checks |-> MaxRaceChecks,
                trace |-> FALSE, platform |-> p]

NextPath == ResolvePath \/ PathReturn

SpecPath == InitPath /\ [][NextPath]_vars

\* SERVICE_PATH over the life of a process, on each of the builds, while
\* helper files come and go.
NextLazy == ProcessStart \/ EnvFiles \/ ServicePathAccess \/ StatusExists

SpecLazy == InitPath /\ [][NextLazy]_vars

\* One monitor loop, a service that comes and goes, the service-mode flag
\* patched under it, stop_service, and the tasks of the notifications; a
\* task may stay where it is for ever.
InitCore ==
    /\ InitShared
    /\ mon = [m \in Monitors |-> IF m = 1 THEN [NoMonitor EXCEPT !.pc = "spawned"]
                                          ELSE NoMonitor]
    /\ inited = TRUE
    /\ run = [callers |-> 1, slots |-> 1, checks |-> MaxChecks, trace |-> FALSE,
              platform |-> "linux"]

NextCore ==
    \/ Monitor
    \/ EnvService \/ EnvConfig
    \/ CoreTaskStart \/ CoreTaskStatus
    \/ \E c \in 1..run.callers : stop_service(c) \/ ElevEnd(c) \/ Finish(c)

SpecCore == InitCore /\ [][NextCore]_vars

\* safe_async_op over operations of every duration.
NextSafe == safe_async_op \/ SafeTick \/ SafePoll \/ SafeReturn

SpecSafe == Init /\ [][NextSafe]_vars

\* status() called again and again, on every run of the helper.
NextStatus == StatusQuery \/ StatusReturn

SpecStatus == Init /\ [][NextStatus]_vars

TypeOK ==
    /\ IPC_STATE \in IpcState
    /\ KILL_FLAG \in BOOLEAN
    /\ HEALTH_CHECK_RUNNING \in BOOLEAN
    /\ svc \in ServiceStatus
    /\ \A m \in Monitors : mon[m].check_count \in 0..MaxChecks

\* ------------------------------------------------------------------ claims
Returned(c) == call[c].pc = "returned"

\* C1: at most one health-monitor loop is alive at any moment, under every
\* interleaving of the control operations.
C1_AtMostOneMonitor == Cardinality(AliveMonitors) <= 1

\* C2: from Disconnected, one loop whose first three health checks observe
\* Running, Running, Stopped has notified exactly Connected, then Disconnected.
C2_RunningRunningStopped ==
    (/\ obs = <<"Running", "Running", "Stopped">>
     /\ mon[1].pc = "top"
     /\ mon[1].check_count = 3)
    => notes = <<"Connected", "Disconnected">>

\* C3, as claimed: on every path a notification on_ipc_state_changed(s) goes
\* with a change of the IPC state from the other value to s.
C3_NotifyOnlyOnChange ==
    [][noteSeq' # noteSeq => (IPC_STATE' # IPC_STATE /\ IPC_STATE' = lastNote')]_vars

\* C3, amended: every write of the IPC state notifies with the value written;
\* a notification that changes nothing is the kill-flag exit of a loop, which
\* stores Disconnected whatever the state was; every other notification (the
\* health check's dispatches, also of racing loops) goes with a change from
\* the other value.
C3_DispatchNotifiesOnChange ==
    [][/\ IPC_STATE' # IPC_STATE => noteSeq' # noteSeq
       /\ noteSeq' # noteSeq =>
            /\ lastNote' = IPC_STATE'
            /\ IPC_STATE' = IPC_STATE =>
                 /\ lastNote' = "Disconnected"
                 /\ KILL_FLAG
                 /\ \E m \in Monitors : mon[m].pc = "top" /\ mon'[m].pc = "exiting"]_vars

C3_Witness ==
    /\ lastNote = "Connected"
    /\ IPC_STATE = "Connected"
    /\ Cardinality(AliveMonitors) = 2

\* C4: a loop that was alive when KILL_FLAG was set to true terminates at its
\* next kill-flag check, publishing Disconnected.
C4_KillTerminatesLoop ==
    [][\A m \in Monitors :
         (mon[m].kill_pending /\ mon[m].pc = "top" /\ mon'[m].pc # "top")
         => (mon'[m].pc = "exiting" /\ IPC_STATE' = "Disconnected")]_vars

Sleeping(m) == mon[m].pc = "top" /\ mon[m].check_count >= 1

\* C5, as claimed: the sleeps after health checks 1, 2 and 3 are 5 seconds,
\* the sleep after the 4th and every later one is 30 seconds.
C5_FirstThreeGapsFive ==
    \A m \in Monitors :
        Sleeping(m) => mon[m].interval = (IF mon[m].check_count <= 3 THEN 5 ELSE 30)

\* C5, amended: the sleeps after health checks 1 and 2 are 5 seconds, the
\* sleep after the 3rd and every later one is 30 seconds.
C5_FirstTwoGapsFive ==
    \A m \in Monitors :
        Sleeping(m) => mon[m].interval = (IF mon[m].check_count <= 2 THEN 5 ELSE 30)

C5_Witness ==
    \E m \in Monitors :
        Sleeping(m) /\ mon[m].check_count = 3 /\ mon[m].interval = 30

\* The step in which caller c calls op and its first status query reports
\* one of sts.
Calls(c, op, sts) ==
    /\ call[c].pc = "idle"
    /\ call'[c].pc # "idle"
    /\ call'[c].op = op
    /\ call'[c].st0 \in sts

\* That call returns Ok in the same step: no elevation, nothing else changed.
NoOp(c) ==
    /\ call'[c].pc = "returned"
    /\ call'[c].res = "Ok"
    /\ ~call'[c].elevated
    /\ UNCHANGED <<KILL_FLAG, HEALTH_CHECK_RUNNING, IPC_STATE, mon, svc, notif>>

\* C6: install_service called while status reports Stopped or Running returns
\* Ok without the elevation primitive, without spawning a monitor loop and
\* without changing KILL_FLAG, every time it is called.
C6_InstallWhenInstalled ==
    [][\A c \in Callers :
         Calls(c, "install", {"Stopped", "Running"}) => NoOp(c)]_vars

C6_Witness ==
    \E c \in Callers :
        /\ Returned(c) /\ call[c].op = "install" /\ call[c].st0 = "Stopped"
        /\ call[c].res = "Ok"

\* C7: start_service while status reports Running, and stop_service while
\* status reports Stopped, return Ok without the elevation primitive and
\* leave KILL_FLAG, HEALTH_CHECK_RUNNING and the IPC state as they are, so
\* any number of such calls has the effect of one.
C7_StartStopInTargetState ==
    [][\A c \in Callers :
         /\ Calls(c, "start", {"Running"}) => NoOp(c)
         /\ Calls(c, "stop", {"Stopped"}) => NoOp(c)]_vars

C7_Witness ==
    /\ \E c \in Callers :
         /\ Returned(c) /\ call[c].op = "start" /\ call[c].st0 = "Running"
         /\ call[c].res = "Ok"
    /\ KILL_FLAG /\ HEALTH_CHECK_RUNNING

\* C8: uninstall_service while status reports NotInstalled returns Ok without
\* the elevation primitive and without setting KILL_FLAG.
C8_UninstallWhenNotInstalled ==
    [][\A c \in Callers :
         Calls(c, "uninstall", {"NotInstalled"}) => NoOp(c)]_vars

C8_Witness ==
    /\ \E c \in Callers :
         /\ Returned(c) /\ call[c].op = "uninstall"
         /\ call[c].st0 = "NotInstalled" /\ call[c].res = "Ok"
    /\ ~KILL_FLAG /\ HEALTH_CHECK_RUNNING

Elevating(c, op) == call[c].pc = "elevating" /\ call[c].op = op

\* C9, as claimed: two escalations for the same control operation are never
\* in flight at the same time.
C9_OneEscalationInFlight ==
    \A c, d \in Callers, op \in {"install", "start"} :
        (Elevating(c, op) /\ Elevating(d, op)) => c = d

\* C9, amended: a call invokes the elevation primitive only when its own
\* status pre-check did not report the target state (install: Stopped or
\* Running; start: Running); callers are not serialised, so two whose
\* pre-checks both ran before either command took effect both escalate.
C9_EscalatesOnlyPastPrecheck ==
    \A c \in Callers :
        /\ Elevating(c, "install") => call[c].st0 \notin {"Stopped", "Running"}
        /\ Elevating(c, "start") => call[c].st0 # "Running"

C9_Witness ==
    /\ Elevating(1, "install") /\ Elevating(2, "install")
    /\ call[1].st0 = "NotInstalled" /\ call[2].st0 = "NotInstalled"

ReturnedOk(c) ==
    /\ Returned(c)
    /\ call[c].op \in {"install", "start", "restart"}
    /\ call[c].res = "Ok"

\* C10, as claimed: after install, start or restart returns Ok with the
\* service-mode flag enabled and a status check reporting Running or Stopped,
\* a monitor loop has been started (or one was already running).
C10_GateRunningOrStopped ==
    \A c \in Callers :
        (ReturnedOk(c) /\ call[c].en /\ call[c].st1 \in {"Running", "Stopped"})
        => (call[c].spawned \/ call[c].hcr)

\* C10, amended: a call that ran its helper command and returns Ok with the
\* flag enabled spawns a monitor loop exactly when its status check passes
\* the gate (install: Running or Stopped; start and restart: Running only)
\* and it read HEALTH_CHECK_RUNNING as false; with the flag disabled, or past
\* a failed gate, it spawns none.
C10_GatePerOperation ==
    \A c \in Callers :
        ReturnedOk(c) =>
            LET gate == /\ call[c].elevated
                        /\ call[c].en
                        /\ \/ call[c].op = "install" /\ call[c].st1 \in {"Running", "Stopped"}
                           \/ call[c].op # "install" /\ call[c].st1 = "Running"
            IN /\ gate => (call[c].spawned # call[c].hcr)
               /\ ~gate => ~call[c].spawned

C10_Witness ==
    \E c \in Callers :
        /\ ReturnedOk(c) /\ call[c].op = "install" /\ call[c].st1 = "Stopped"
        /\ call[c].spawned
        /\ \E m \in Monitors : mon[m].pc = "spawned"

Queried == query # NoQuery
Spawned == Queried /\ query.helper.exe_exists /\ query.helper.spawn_ok
HasMarker(ms) == query.helper.stderr \cap ms # {}

\* C11, as claimed: status() returns Ok(NotInstalled), never an error, when
\* the executable does not exist; when spawning fails; when the helper exits
\* non-zero with a not-installed marker in stderr; when it exits zero with
\* stdout that is not UTF-8 or not decodable JSON and stderr carries no
\* permission-denied marker.
C11_DegradesToNotInstalled ==
    Queried =>
        ((\/ ~query.helper.exe_exists
          \/ ~query.helper.spawn_ok
          \/ Spawned /\ ~query.helper.exit_ok /\ HasMarker(NotInstalledMarkers)
          \/ /\ Spawned /\ query.helper.exit_ok
             /\ query.helper.stdout \in {"not utf8", "not json"}
             /\ ~HasMarker(PermissionMarkers))
         => query.result = "NotInstalled")

\* C11, amended: the same, with the proviso that stderr carries no
\* permission-denied marker on the non-zero exit case too.
C11_DegradesUnlessPermissionDenied ==
    Queried =>
        ((\/ ~query.helper.exe_exists
          \/ ~query.helper.spawn_ok
          \/ /\ Spawned /\ ~query.helper.exit_ok
             /\ HasMarker(NotInstalledMarkers)
             /\ ~HasMarker(PermissionMarkers)
          \/ /\ Spawned /\ query.helper.exit_ok
             /\ query.helper.stdout \in {"not utf8", "not json"}
             /\ ~HasMarker(PermissionMarkers))
         => query.result = "NotInstalled")

C11_Witness ==
    /\ Spawned /\ query.helper.exit_ok /\ query.helper.stdout = "not json"
    /\ query.helper.stderr = {"not found"}
    /\ query.result = "NotInstalled"

\* C12: whenever the helper was spawned and its stderr contains "Permission
\* denied" or "os error 13", status() returns Err, whatever the exit code,
\* stdout and the other markers in stderr are.
C12_PermissionDeniedIsErr ==
    (Spawned /\ HasMarker(PermissionMarkers)) => query.result = "Err"

C12_Witness ==
    /\ Spawned /\ ~query.helper.exit_ok
    /\ query.helper.stderr = {"Permission denied", "zh: cannot find"}
    /\ query.result = "Err"

\* C13: when the elevated helper command of install, update, uninstall,
\* start, stop or restart exits non-zero, the operation returns Err in that
\* step, before any lifecycle side effect: KILL_FLAG is not set, no monitor
\* loop is spawned, and no post-install polling happens.
C13_NonZeroExitFails ==
    [][\A c \in Callers :
         (call[c].pc = "elevating" /\ call'[c].exit = "nonzero")
         => /\ call'[c].pc = "returned"
            /\ call'[c].res = "Err"
            /\ call'[c].polls = 0
            /\ ~call'[c].spawned
            /\ ~call'[c].kill_set
            /\ UNCHANGED <<KILL_FLAG, HEALTH_CHECK_RUNNING, IPC_STATE, mon, notif>>]_vars

\* A call of execute_operation that has its value.
Done == priv.pc = "done"

\* It was SetTunMode{enable: false} and its is_available answered false.
DisableUnavailable ==
    /\ Done
    /\ is_disable_operation(priv.op)
    /\ ~priv.first.avail

\* C14: execute_operation(SetTunMode{enable: false}) with the handler
\* unavailable patches the configuration with enable_tun_mode = false, makes
\* no Service Control call, and returns a result with handler_used
\* "config_direct" whose success is true exactly when the patch succeeded.
C14_DisableFallsBackToConfig ==
    DisableUnavailable =>
        /\ priv.ret = "Ok"
        /\ priv.handler_used = "config_direct"
        /\ priv.patch \in {"Ok", "Err"}
        /\ priv.success <=> priv.patch = "Ok"
        /\ priv.patch = "Ok" => ~enable_tun_mode
        /\ priv.calls = {}
        /\ call[1] = Idle

C14_Witness ==
    /\ DisableUnavailable
    /\ priv.success
    /\ ~enable_tun_mode
    /\ svc = "Running"

\* C15: whenever the handler is available and handler.execute(op) returns
\* Err, on the enable and on the disable path, execute_operation returns Ok
\* with success = false, a message and handler_used = "service"; the
\* handler's error is never returned as Err from execute_operation.
C15_HandlerErrorIsWrapped ==
    (Done /\ priv.exec = "Err") =>
        /\ priv.avail
        /\ priv.ret = "Ok"
        /\ ~priv.success
        /\ priv.message = "Some"
        /\ priv.handler_used = "service"

C15_Witness ==
    /\ Done
    /\ priv.exec = "Err"
    /\ is_disable_operation(priv.op)
    /\ priv.patch = "Ok"

\* C16, as claimed: when the handler is unavailable for SetTunMode{enable:
\* false} and the direct configuration patch errors, execute_operation
\* returns Err rather than a result value.
C16_PatchErrorIsHardFailure ==
    (DisableUnavailable /\ priv.patch = "Err") => priv.ret = "Err"

\* C16, amended: execute_operation returns a result value in every case;
\* when the handler is unavailable for SetTunMode{enable: false} and the
\* direct configuration patch errors, it returns Ok with success = false, a
\* message and handler_used = "config_direct".
C16_PatchErrorIsResultValue ==
    Done =>
        /\ priv.ret = "Ok"
        /\ (DisableUnavailable /\ priv.patch = "Err") =>
             /\ ~priv.success
             /\ priv.message = "Some"
             /\ priv.handler_used = "config_direct"

C16_Witness ==
    /\ DisableUnavailable
    /\ priv.patch = "Err"
    /\ priv.ret = "Ok"

\* C17: is_available returns true only if the IPC flag reads Connected and a
\* status() query made during that call returns Ok(Running); it returns false
\* without querying status when the flag is Disconnected, and false when the
\* status is Stopped, NotInstalled or an error.
C17_AvailableNeedsFlagAndRunning ==
    priv.ipc # "none" =>
        /\ priv.avail <=> (priv.ipc = "Connected" /\ priv.st = "Running")
        /\ priv.ipc = "Disconnected" => priv.st = "none"
        /\ priv.ipc = "Connected" => priv.st \in ServiceStatus \cup {"Err"}

C17_Witness ==
    /\ priv.ipc = "Connected"
    /\ priv.st = "Stopped"
    /\ ~priv.avail
    /\ priv.pc = "config_direct"

Unsupported(op) == op.type \in {"UpdateCorePermissions", "ModifyNetworkSettings"}

\* C18: for UpdateCorePermissions and ModifyNetworkSettings handler.execute
\* returns Err without restarting the service or patching any configuration,
\* and execute_operation never returns a result with success = true, in
\* every service state.
C18_UnsupportedAlwaysFails ==
    [][/\ (priv.pc = "execute" /\ Unsupported(priv.op) /\ priv' # priv) =>
            /\ priv'.exec = "Err"
            /\ priv'.calls = priv.calls
            /\ UNCHANGED <<enable_tun_mode, enable_service_mode, svc, call>>
       /\ (priv'.pc = "done" /\ Unsupported(priv'.op)) => ~priv'.success]_vars

C18_Witness ==
    /\ Done
    /\ priv.op.type = "UpdateCorePermissions"
    /\ priv.exec = "Err"
    /\ svc = "Running"

\* C20: requires_confirmation(op) is false exactly when op is SetTunMode, for
\* either value of enable, and true for ModifyNetworkSettings and
\* UpdateCorePermissions, at the handler and through the manager.
C20_ConfirmationFreeIsSetTunMode ==
    priv.pc = "prechecked" =>
        /\ priv.confirm <=> priv.op.type # "SetTunMode"
        /\ priv.handler_confirm <=> priv.op.type # "SetTunMode"

C20_Witness ==
    /\ priv.pc = "prechecked"
    /\ priv.op = [type |-> "SetTunMode", enable |-> TRUE]
    /\ ~priv.confirm
    /\ ~priv.handler_confirm

Resolved == resolved.pc = "resolved"

\* The directories of the candidates, in the order of the claim.
ClaimedOrder(e) ==
    <<[dir |-> e.exe_dir, sub |-> "sidecar"],
      [dir |-> e.exe_dir, sub |-> ""],
      [dir |-> e.program_files, sub |-> "nyanpasu"],
      [dir |-> e.install_dir, sub |-> "sidecar"],
      [dir |-> e.install_dir, sub |-> ""],
      [dir |-> e.program_data, sub |-> "nyanpasu-service/data"]>>

In(path, d) == path.dir = d.dir /\ path.sub = d.sub

\* The result is a file that exists, in the first directory of the order
\* that holds one.
FirstExisting ==
    LET order == ClaimedOrder(resolved.env.place)
        path == resolved.result.path
    IN /\ resolved.result.ok
       /\ path \in resolved.env.exists
       /\ \E i \in 1..Len(order) :
            /\ In(path, order[i])
            /\ \A j \in 1..(i - 1), p \in resolved.env.exists : ~In(p, order[j])

InstallDirFallback ==
    /\ resolved.result.ok
    /\ resolved.result.path = join(resolved.env.place.install_dir, "", SERVICE_NAME)

\* C19, as claimed: the resolver returns the first candidate, in the order
\* exe-dir/sidecar, exe-dir, Program Files, install-dir/sidecar, install-dir,
\* ProgramData service dir, whose file exists; when no candidate exists it
\* returns install-dir/<binary-name> without an error.
C19_FirstExistingElseInstallDir ==
    Resolved =>
        IF resolved.env.exists # {} THEN FirstExisting
        ELSE /\ resolved.env.place.install_dir # "none"
             /\ InstallDirFallback

\* C19, amended: the resolver returns the first candidate in that order whose
\* file exists; when none exists it returns install-dir/<binary-name> if the
\* install directory can be determined, and get_service_path returns an
\* error if it cannot, which SERVICE_PATH replaces by
\* exe-dir/<binary-name>.
C19_FirstExistingElseInstallDirIfKnown ==
    Resolved =>
        IF resolved.env.exists # {} THEN FirstExisting /\ resolved.cached = resolved.result
        ELSE IF resolved.env.place.install_dir # "none"
        THEN InstallDirFallback /\ resolved.cached = resolved.result
        ELSE /\ ~resolved.result.ok
             /\ resolved.env.place.exe_dir # "none" =>
                  /\ resolved.cached.ok
                  /\ resolved.cached.path = join(resolved.env.place.exe_dir, "", SERVICE_NAME)

C19_Witness ==
    /\ Resolved
    /\ resolved.env.place.exe_dir = "/app"
    /\ resolved.env.place.install_dir = "/opt"
    /\ resolved.env.exists = {join("/opt", "sidecar", SERVICE_NAME)}
    /\ resolved.result.path = join("/opt", "sidecar", SERVICE_NAME)

\* C28: on an IPC state notification run_core is called if and only if the
\* service-mode flag read at notification time was enabled and the run type
\* is inconsistent with the notified state: (Connected, Normal) or
\* (Disconnected, Service).
C28_RestartIffInconsistent ==
    /\ core.pc = "done" =>
         (core.run_core <=>
            /\ core.enabled
            /\ \/ core.state = "Connected" /\ core.run_type = "Normal"
               \/ core.state = "Disconnected" /\ core.run_type = "Service")
    /\ core.pc # "done" => ~core.run_core

C28_Witness ==
    /\ core.pc = "done"
    /\ core.run_core
    /\ core.state = "Disconnected"
    /\ core.run_type = "Service"
    /\ ~enable_service_mode

\* C29: on_ipc_state_changed only spawns the core-status query and the core
\* restart as a separate task and returns: the step that notifies leaves the
\* task spawned and the loop at its next sleep (or exit), the task's own
\* steps touch neither the loop nor the IPC state, and the loop's next
\* kill-flag check and health check are enabled wherever the task is.
C29_CallbackDoesNotBlock ==
    /\ [](\A m \in Monitors :
            /\ mon[m].pc = "check" => ENABLED MonHealthCheck(m)
            /\ (mon[m].pc = "top" /\ (KILL_FLAG \/ mon[m].check_count < run.checks))
                 => ENABLED MonKillCheck(m))
    /\ [][/\ noteSeq' # noteSeq =>
               /\ core'.pc = "spawned"
               /\ \E m \in Monitors :
                    /\ mon[m].pc \in {"top", "check"}
                    /\ mon'[m].pc \in {"top", "exiting"}
          /\ (core' # core /\ noteSeq' = noteSeq) =>
               UNCHANGED <<shared, mon, lastNote, notes>>]_vars

C29_Witness ==
    /\ core.pc = "status"
    /\ core.state = "Connected"
    /\ mon[1].check_count = 3
    /\ mon[1].pc = "check"

Spawns(c) == call[c].pc = "post" /\ call'[c].spawned

\* C22: install_service, start_service and restart_service call
\* spawn_health_check only after the helper command succeeded, the
\* service-mode flag read enabled, the status query after the operation
\* returned Running or Stopped, and HEALTH_CHECK_RUNNING read false; with
\* service mode disabled no control operation spawns a monitor loop.
C22_SpawnOnlyPastGate ==
    [][\A c \in Callers :
         /\ Spawns(c) =>
              /\ call[c].exit = "zero"
              /\ enable_service_mode
              /\ call'[c].st1 \in {"Running", "Stopped"}
              /\ ~HEALTH_CHECK_RUNNING
         /\ (call'[c] # call[c] /\ ~enable_service_mode) =>
              \A m \in Monitors : Alive(m) \/ mon'[m] = mon[m]]_vars

\* C23: with a single monitor loop and no other writer, after each
\* health_check the IPC state is Connected if the status query returned
\* Ok(Running), and Disconnected if it returned Ok(Stopped),
\* Ok(NotInstalled) or Err.
C23_StateFollowsHealthCheck ==
    [][\A m \in Monitors :
         (mon[m].pc = "check" /\ mon'[m].pc = "top") =>
             IPC_STATE' = (IF obs'[Len(obs')] = "Running"
                           THEN "Connected" ELSE "Disconnected")]_vars

\* C24: when stop_service or uninstall_service has run the helper command
\* and returns Ok, KILL_FLAG is true.
C24_KillFlagSetOnOk ==
    [][\A c \in Callers :
         (/\ call[c].pc = "elevating"
          /\ call[c].op \in {"stop", "uninstall"}
          /\ call'[c].pc = "returned"
          /\ call'[c].res = "Ok") => KILL_FLAG']_vars

\* C25: install_service or start_service that succeeds with service mode
\* enabled and the status Running leaves the kill flag clear and a monitor
\* loop alive, also when stop_service set KILL_FLAG while the loop slept.
C25_StartLeavesMonitor ==
    [][\A c \in Callers :
         (/\ call[c].pc = "post"
          /\ call[c].op \in {"install", "start"}
          /\ call'[c].pc = "returned"
          /\ call'[c].en
          /\ call'[c].st1 = "Running")
         => (~KILL_FLAG' /\ \E m \in Monitors : mon'[m].pc # "none")]_vars

\* C26: a monitor loop leaves its loop only at the kill-flag check at the top
\* of an iteration, having read KILL_FLAG true, and its thread ends only from
\* there; a health check, whatever the status query returned (an error
\* included), and the sleep after it lead back to the top of the loop.
C26_ExitsOnlyAtKillCheck == [][\A m \in Monitors :
    /\ (Alive(m) /\ mon'[m].pc = "exiting" /\ mon[m].pc # "exiting")
          => (mon[m].pc = "top" /\ KILL_FLAG)
    /\ (Alive(m) /\ mon'[m].pc = "none") => mon[m].pc = "exiting"
    /\ mon[m].pc = "check" => mon'[m].pc \in {"check", "top"}]_vars

C26_Witness ==
    /\ mon[1].pc = "exiting"
    /\ KILL_FLAG
    /\ \E i \in 1..Len(obs) : obs[i] = "Err"

\* C27: the IPC state changes only in a step of a monitor loop (a health
\* check's dispatch, or the exit at the kill-flag check); no step of a control
\* operation, of its status query, of the privilege manager or of the service
\* handler changes it.
C27_OnlyMonitorWritesIpcState == [][IPC_STATE' # IPC_STATE =>
    /\ \E m \in Monitors : /\ mon[m].pc \in {"top", "check"}
                           /\ mon'[m].pc # mon[m].pc
    /\ call' = call
    /\ priv' = priv]_vars

C27_Witness ==
    /\ IPC_STATE = "Connected"
    /\ priv.pc = "done" /\ priv.success
    /\ call[2].pc = "returned" /\ call[2].op = "uninstall" /\ call[2].res = "Ok"
    /\ svc = "NotInstalled"

TunOff == [type |-> "SetTunMode", enable |-> FALSE]
DisablePathPcs == {"config_direct", "idle_check", "stopping"}
EnablePathPcs == {"auto_setup", "setup_starting", "installing", "installed",
                  "installed_wait", "recheck"}

\* C30: a call of execute_operation is on the disable path (the direct
\* configuration fallback, the idle check and the auto-stop) only for
\* SetTunMode{enable: false}, and on the enable path (the automatic setup,
\* the "service_not_running" result) only for the other operations; a call
\* whose first is_available answered false ends on the fallback if and only
\* if it is SetTunMode{enable: false}; no call returns the "unsupported"
\* result.
C30_DisablePathOnlyForTunOff ==
    /\ (\/ priv.pc \in DisablePathPcs
        \/ priv.handler_used = "config_direct"
        \/ "stop" \in priv.calls) => priv.op = TunOff
    /\ (\/ priv.pc \in EnablePathPcs
        \/ priv.handler_used = "service_not_running"
        \/ "install" \in priv.calls) => priv.op \in PrivilegedOperation \ {TunOff}
    /\ (priv.pc = "done" /\ ~priv.first.avail) =>
          (priv.handler_used = "config_direct" <=> priv.op = TunOff)
    /\ priv.handler_used # "unsupported"

C30_Witness ==
    /\ priv.pc = "done"
    /\ priv.op = TunOff
    /\ "stop" \in priv.calls
    /\ priv.handler_used = name

\* C31: handler.execute(SetTunMode{enable}) patches enable_tun_mode to enable
\* first; a failed patch ends the call with no start attempted and the flag
\* as it was.  Only past the patch is the service looked at: Running starts
\* nothing, Stopped calls start_service, NotInstalled or a status error
\* returns Err with no control call, the patched flag staying in place.
C31_PatchThenEnsure == [][
    /\ (priv.pc = "execute" /\ priv.op.type = "SetTunMode" /\ priv' # priv) =>
          \/ /\ priv'.pc = "ensure" /\ priv'.patch = "Ok"
             /\ enable_tun_mode' = priv.op.enable
             /\ priv'.calls = priv.calls /\ call' = call
          \/ /\ priv'.pc = "done" /\ priv'.patch = "Err" /\ priv'.exec = "Err"
             /\ enable_tun_mode' = enable_tun_mode
             /\ priv'.calls = priv.calls /\ call' = call
    /\ (priv.pc = "ensure" /\ priv' # priv) =>
          /\ priv.op.type = "SetTunMode" /\ priv.patch = "Ok"
          /\ enable_tun_mode = priv.op.enable
          /\ enable_tun_mode' = enable_tun_mode
          /\ call' = call
          /\ \/ svc = "Running" /\ priv'.exec = "Ok" /\ priv'.calls = priv.calls
             \/ /\ svc = "Stopped" /\ priv'.pc = "ensure_starting"
                /\ priv'.calls = priv.calls \cup {"start"}
             \/ priv'.exec = "Err" /\ priv'.pc = "done" /\ priv'.calls = priv.calls
    /\ (priv.pc = "ensure_starting" /\ call'[1] # call[1] /\ call[1].pc = "idle") =>
          call'[1].op = "start"]_vars

C31_Witness ==
    /\ priv.pc = "done"
    /\ priv.op = [type |-> "SetTunMode", enable |-> TRUE]
    /\ priv.patch = "Ok" /\ priv.exec = "Err"
    /\ enable_tun_mode
    /\ priv.calls = {}
    /\ svc = "NotInstalled"

\* C32: on the disable path with the handler available, the idle check runs
\* only after a handler.execute that succeeded, and calls stop_service
\* exactly when it reads enable_tun_mode false; a call whose execute failed
\* never stops the service; whatever stop_service returns, the result is the
\* success computed before it.
C32_StopIffSucceededAndIdle == [][
    /\ (priv.pc = "idle_check" /\ priv' # priv) =>
          /\ priv.op = TunOff /\ priv.first.avail
          /\ priv.exec = "Ok" /\ priv.success
          /\ priv'.pc = (IF enable_tun_mode THEN "done" ELSE "stopping")
          /\ priv'.calls = (IF enable_tun_mode THEN priv.calls
                            ELSE priv.calls \cup {"stop"})
    /\ (priv'.pc = "stopping" /\ priv.pc # "stopping") => priv.pc = "idle_check"
    /\ (priv.pc \in {"execute", "ensure", "ensure_starting"} /\ priv'.exec = "Err")
          => (priv'.pc = "done" /\ ~priv'.success /\ "stop" \notin priv'.calls)
    /\ (priv.pc = "stopping" /\ priv'.pc # "stopping") =>
          /\ priv'.pc = "done" /\ priv'.ret = "Ok" /\ priv'.success
          /\ priv'.handler_used = name /\ priv'.message = priv.message
    /\ (priv.pc = "done" /\ priv.exec = "Err") => "stop" \notin priv.calls]_vars

\* The automatic stop has failed; the call is about to return its success.
C32_Witness ==
    /\ priv.pc = "stopping"
    /\ priv.op = TunOff
    /\ call[1].pc = "returned" /\ call[1].op = "stop" /\ call[1].res = "Err"
    /\ priv.success /\ priv.exec = "Ok"
    /\ ~enable_tun_mode

NotRunningResult(p) ==
    /\ p.pc = "done" /\ p.ret = "Ok" /\ ~p.success
    /\ p.handler_used = "service_not_running" /\ p.exec = "none"

\* C33: on the enable path with the handler unavailable, auto setup is
\* entered once, from the first is_available: a status of Running does
\* nothing, Stopped calls start_service, NotInstalled or a status error calls
\* install_service, then patches enable_service_mode to true (a patch error
\* is tolerated), asks is_available, waits, asks again and calls
\* start_service if the answer is still no.  Availability is asked again only
\* after a setup that returned Ok; a setup that failed, or a handler still
\* unavailable, gives Ok{success: false, handler_used: "service_not_running"}
\* with handler.execute never called.
C33_AutoSetupOnce == [][
    /\ (priv'.pc = "auto_setup" /\ priv.pc # "auto_setup") =>
          /\ priv.pc = "idle" /\ ~priv'.first.avail
          /\ priv'.op \in PrivilegedOperation \ {TunOff}
          /\ priv'.calls = {} /\ priv'.exec = "none"
    /\ (priv.pc = "auto_setup" /\ priv' # priv) =>
          /\ call' = call /\ enable_service_mode' = enable_service_mode
          /\ priv'.setup \in {svc, "Err"}
          /\ CASE priv'.setup = "Running" ->
                     priv'.pc = "recheck" /\ priv'.calls = priv.calls
                [] priv'.setup = "Stopped" ->
                     /\ priv'.pc = "setup_starting"
                     /\ priv'.calls = priv.calls \cup {"start"}
                [] OTHER ->
                     /\ priv'.pc = "installing"
                     /\ priv'.calls = priv.calls \cup {"install"}
    /\ (priv.pc = "installing" /\ priv'.pc # "installing") =>
          /\ enable_service_mode' = enable_service_mode
          /\ IF call[1].res = "Ok" THEN priv'.pc = "installed"
             ELSE NotRunningResult(priv')
    /\ (priv.pc = "installed" /\ priv' # priv) =>
          /\ enable_service_mode' \in {TRUE, enable_service_mode}
          /\ priv'.pc = (IF priv'.avail THEN "recheck" ELSE "installed_wait")
          /\ priv'.calls = priv.calls
    /\ (priv.pc = "installed_wait" /\ priv' # priv) =>
          /\ priv'.pc = (IF priv'.avail THEN "recheck" ELSE "setup_starting")
          /\ priv'.calls = (IF priv'.avail THEN priv.calls
                            ELSE priv.calls \cup {"start"})
    /\ (priv.pc = "setup_starting" /\ priv'.pc # "setup_starting") =>
          IF call[1].res = "Ok" THEN priv'.pc = "recheck"
          ELSE NotRunningResult(priv')
    /\ (priv.pc = "recheck" /\ priv' # priv) =>
          /\ priv'.calls = priv.calls /\ call' = call
          /\ IF priv'.avail THEN priv'.pc = "execute"
             ELSE NotRunningResult(priv')
    /\ (priv'.pc = "done" /\ priv'.handler_used = "service_not_running")
          => NotRunningResult(priv')]_vars

\* Installed, patched, still unavailable after the wait, started, and the
\* handler is unavailable at the re-check.
C33_Witness ==
    /\ NotRunningResult(priv)
    /\ priv.calls = {"install", "start"}
    /\ priv.setup = "Err"
    /\ priv.op = [type |-> "SetTunMode", enable |-> TRUE]
    /\ enable_service_mode
    /\ svc = "Running"
    /\ ~priv.avail

\* C34: the wait after a Windows install makes one status query per round,
\* PollAttempts rounds at most; it ends at the first query that answers
\* Stopped or Running, goes on after NotInstalled and after a failed query,
\* and ends after the last round whatever that answered; install_service
\* then goes on to its health-check gating and returns Ok.
C34_PollBoundedNeverFails == [][\A c \in Callers :
    /\ call[c].pc = "polling" =>
          /\ call[c].op = "install" /\ run.platform = "windows"
          /\ call[c].polls < PollAttempts
    /\ (call[c].pc = "polling" /\ call'[c] # call[c]) =>
          /\ call'[c].polls = call[c].polls + 1
          /\ call'[c].polled \in {svc, "Err"}
          /\ call'[c].pc = (IF \/ call'[c].polled \in {"Stopped", "Running"}
                               \/ call'[c].polls = PollAttempts
                            THEN "post" ELSE "polling")
          /\ call'[c].res = call[c].res
    /\ (call[c].pc = "post" /\ call[c].op = "install" /\ call'[c] # call[c]) =>
          /\ call'[c].pc = "returned" /\ call'[c].res = "Ok"
          /\ call'[c].polls = call[c].polls]_vars

\* Thirty rounds, the last one still NotInstalled, and install_service
\* returned Ok.
C34_Witness ==
    /\ call[1].pc = "returned" /\ call[1].op = "install" /\ call[1].res = "Ok"
    /\ call[1].polls = PollAttempts
    /\ call[1].polled = "NotInstalled"

\* C35: SERVICE_PATH is computed at its first access, from the files as they
\* are then, and keeps that value whatever files appear or disappear later;
\* every status() looks up that same path in the files as they are at the
\* call.
C35_ResolvedOnce == [][resolved # NoPath =>
    /\ resolved.cell # Uninit => resolved'.cell = resolved.cell
    /\ resolved'.cell # resolved.cell => resolved'.cell = SERVICE_PATH(resolved.env)
    /\ resolved'.exists # resolved.exists =>
          /\ resolved'.cell # Uninit
          /\ resolved'.exists = (IF resolved'.cell.path \in resolved.env.exists
                                 THEN "yes" ELSE "no")]_vars

\* The cached path is gone, a candidate that comes before it exists, and
\* status() has just found the cached path missing.
C35_Witness ==
    /\ resolved # NoPath
    /\ resolved.cell.ok
    /\ resolved.cell.path \notin resolved.env.exists
    /\ resolved.env.exists # {}
    /\ SERVICE_PATH(resolved.env) # resolved.cell
    /\ resolved.exists = "no"

\* C36: when auto_setup_service has returned Ok and the service is Running
\* with service mode enabled, a monitor loop is alive (so that the IPC state
\* can become Connected and is_available can answer true).
C36_SetupLeavesMonitor ==
    (/\ priv.pc = "recheck"
     /\ svc = "Running"
     /\ enable_service_mode) => \E m \in Monitors : Alive(m)

\* C37: whenever HEALTH_CHECK_RUNNING is true a monitor loop is alive, and a
\* control operation that reads HEALTH_CHECK_RUNNING false and spawns does so
\* with no monitor thread spawned and not yet exited.
C37_FlagReflectsMonitor ==
    /\ [](HEALTH_CHECK_RUNNING => AliveMonitors # {})
    /\ [][\A c \in Callers : Spawns(c) => AliveMonitors = {}]_vars

\* C38: init_service spawns a monitor loop exactly when its status query
\* returned Ok(Running) and it read service mode enabled; having spawned, it
\* returns (it gets to see HEALTH_CHECK_RUNNING true), also when a concurrent
\* stop_service or uninstall_service sets KILL_FLAG.
C38_InitSpawnsIffAndReturns ==
    /\ [][\A c \in Callers :
            (call[c].pc = "idle" /\ call'[c].op = "init") =>
               /\ call'[c].spawned <=> (call'[c].st0 = "Running" /\ call'[c].en)
               /\ call'[c].spawned <=> mon' # mon
               /\ call'[c].pc = (IF call'[c].spawned THEN "init_wait" ELSE "returned")]_vars
    /\ \A c \in Callers : (call[c].pc = "init_wait") ~> (call[c].pc = "returned")

\* C39: service_remove returns Ok with no control call when its summary says
\* not installed; otherwise it calls stop_service first exactly when the
\* summary's status was Running, then uninstall_service whatever stop_service
\* returned; the service-mode flag is patched, to false, only after
\* uninstall_service returned Ok, and an uninstall error is returned with the
\* flag untouched.
C39_RemoveOrder == [][
    /\ (priv.pc = "summary" /\ priv' # priv) =>
          /\ call' = call /\ enable_service_mode' = enable_service_mode
          /\ IF ~priv'.installed
             THEN priv'.pc = "removed" /\ priv'.ret = "Ok" /\ priv'.calls = <<>>
             ELSE IF priv'.status = "Running"
             THEN priv'.pc = "remove_stopping" /\ priv'.calls = <<"stop">>
             ELSE priv'.pc = "remove_uninstalling" /\ priv'.calls = <<"uninstall">>
    /\ (priv.pc \in RemovePcs /\ call[1].pc = "idle" /\ call'[1] # call[1]) =>
          call'[1].op = remove_op(priv.pc)
    /\ (priv.pc = "remove_stopping" /\ priv' # priv) =>
          /\ priv'.pc = "remove_uninstalling"
          /\ priv'.calls = <<"stop", "uninstall">>
          /\ priv'.stop = call[1].res
    /\ (priv.pc = "remove_uninstalling" /\ priv' # priv) =>
          /\ priv'.calls = priv.calls
          /\ IF call[1].res = "Ok" THEN priv'.pc = "remove_patch"
             ELSE priv'.pc = "removed" /\ priv'.ret = "Err" /\ priv'.patch = "none"
    /\ enable_service_mode' # enable_service_mode =>
          /\ priv.pc = "remove_patch" /\ ~enable_service_mode'
          /\ priv.calls[Len(priv.calls)] = "uninstall"
    /\ (priv.pc = "remove_patch" /\ priv' # priv) =>
          /\ priv'.pc = "removed" /\ priv'.ret = "Ok" /\ call' = call]_vars

\* The stop failed, the uninstall went through, the flag is off.
C39_Witness ==
    /\ priv.pc = "removed"
    /\ priv.calls = <<"stop", "uninstall">>
    /\ priv.stop = "Err"
    /\ priv.ret = "Ok" /\ priv.patch = "Ok"
    /\ ~enable_service_mode

\* The privilege call in flight is a warm_up (now; at the next state).
InWarmUp == priv.pc # "idle" /\ priv.op = WarmUp
InWarmUpNext == priv'.pc # "idle" /\ priv'.op = WarmUp

\* C40: warm_up always returns Ok. A call that finds the handler available
\* returns at once, having made no Service Control call; one that finds it
\* unavailable enters auto_setup_service, which is entered at no other step
\* of the call, and an Err of auto_setup_service (setup_ret) leaves the
\* returned value Ok.
C40_WarmUpAlwaysOk ==
    /\ [](InWarmUp /\ priv.pc = "done" =>
            /\ priv.ret = "Ok"
            /\ priv.first.avail => priv.calls = {} /\ priv.setup_ret = "none"
            /\ ~priv.first.avail => priv.setup_ret \in {"Ok", "Err"})
    /\ [][/\ warm_up =>
               priv'.pc = IF priv'.first.avail THEN "done" ELSE "auto_setup"
          /\ InWarmUp /\ priv'.pc = "auto_setup" => priv.pc = "auto_setup"
          /\ InWarmUp /\ InWarmUpNext /\ priv'.setup_ret # priv.setup_ret =>
               priv'.pc = "done" /\ priv'.ret = "Ok"]_vars

\* warm_up has returned Ok after an install that failed.
C40_Witness ==
    /\ InWarmUp
    /\ priv.pc = "done"
    /\ priv.ret = "Ok"
    /\ priv.setup_ret = "Err"
    /\ "install" \in priv.calls

====
